---- MODULE Spec2Model ----
\* A model of the audio output of esphome/voice-kit:
\*   - I2SAudioSpeaker (src/esphome/components/i2s_audio/speaker/i2s_audio_speaker.cpp):
\*     the main-thread calls start/stop/finish/loop/play/set_volume and the
\*     FreeRTOS speaker task, communicating through one event group, the audio
\*     ring buffer and the flag task_created_;
\*   - the speaker task of NabuMediaPlayer
\*     (src/esphome/components/nabu/nabu_media_player.cpp) with its command and
\*     event queues, and watch_speaker_ on the main thread;
\*   - NabuMediaPlayer's main loop (control, set_ducking_ratio, loop) with the
\*     two pipelines and the mixer it commands;
\*   - set_volume and q15_multiplication of I2SAudioSpeaker as functions.
\* Spec (and FairSpec) covers the two workers, PlayerSpec the main loop of the
\* player, FunctionSpec the functions; the variable comp, chosen in the initial
\* state, names the part a behaviour exercises.
\* Audio data is modelled in 16-bit samples; times in units of one empty
\* ring-buffer read (TASK_DELAY_MS); volumes and ratios in hundredths.
EXTENDS Integers, Sequences, FiniteSets, TLC

----------------------------------------------------------------------------
\* Bounds of the model (scaled-down sizes; none is a program constant).

\* capacity of the audio ring buffer, in samples (OUTPUT_BUFFER_SAMPLES scaled)
RingCap == 2
\* samples read per task iteration (SAMPLES_IN_ALL_DMA_BUFFERS scaled)
ReadMax == 1
\* samples play() may get accepted within one run of the task
MaxAccepted == 2
\* timeout_: idle timeout, in read timeouts (TASK_DELAY_MS)
TimeoutReads == 1
\* the longest time i2s_write blocks (portMAX_DELAY), in read timeouts
MaxWriteTime == 2
\* capacity of the nabu speaker queues (QUEUE_COUNT scaled)
QueueCap == 3
\* status events one nabu speaker task may send before only STOP is served
MaxEvents == 5
\* data blocks the mixer may hold for the nabu speaker task
MixCap == 1
\* failures the environment injects in one behaviour (allocation, driver call,
\* short write, task creation)
MaxFaults == 1
\* calls of start, stop, finish, play and set_volume in one behaviour
MaxCalls == 3
\* calls of control in one behaviour
MaxControls == 3
\* capacity of the media command queue (QUEUE_COUNT scaled)
CmdQueueCap == 2
\* capacity of a pipeline's queue of status events
PipeEventCap == 1
\* how far outside [0, 1] the volumes given to set_volume go, in hundredths
VolumeOver == 5
\* samples taken around each of -32768, 0 and 32767
SampleSpan == 2

----------------------------------------------------------------------------
\* Program constants.

INT16_MAX == 32767
\* max_attempts of the retries "ann_start" and "media_start"
RetryAttempts == 3

\* q15_volume_scaling_factors (100 entries)
q15_volume_scaling_factors ==
  << 0,     116,   122,   130,   137,   146,   154,   163,   173,   183,   194,   206,   218,   231,   244,
     259,   274,   291,   308,   326,   345,   366,   388,   411,   435,   461,   488,   517,   548,   580,
     615,   651,   690,   731,   774,   820,   868,   920,   974,   1032,  1094,  1158,  1227,  1300,  1377,
     1459,  1545,  1637,  1734,  1837,  1946,  2061,  2184,  2313,  2450,  2596,  2750,  2913,  3085,  3269,
     3462,  3668,  3885,  4116,  4360,  4619,  4893,  5183,  5490,  5816,  6161,  6527,  6914,  7324,  7758,
     8218,  8706,  9222,  9770,  10349, 10963, 11613, 12302, 13032, 13805, 14624, 15491, 16410, 17384, 18415,
     19508, 20665, 21891, 23189, 24565, 26022, 27566, 29201, 30933, 32767 >>

\* SpeakerTaskNotificationBits
COMMAND_BITS == {"COMMAND_START", "COMMAND_STOP", "COMMAND_STOP_GRACEFULLY"}

STATE_BITS == {"STATE_STARTING", "STATE_RUNNING", "STATE_STOPPING", "STATE_STOPPED"}

ERROR_BITS ==
  {"ERR_INVALID_STATE", "ERR_INVALID_ARG", "ERR_INVALID_SIZE", "ERR_NO_MEM", "ERR_FAIL"}

ALL_BITS ==
  COMMAND_BITS \cup STATE_BITS \cup ERROR_BITS
    \cup {"MESSAGE_RING_BUFFER_AVAILABLE_TO_WRITE", "ERR_TASK_FAILED_TO_START"}

\* set_event_group_error_: the bit recorded for an esp_err_t other than ESP_OK
ErrBit(err) ==
  CASE err = "ESP_ERR_INVALID_STATE" -> "ERR_INVALID_STATE"
    [] err = "ESP_ERR_INVALID_ARG" -> "ERR_INVALID_ARG"
    [] err = "ESP_ERR_INVALID_SIZE" -> "ERR_INVALID_SIZE"
    [] err = "ESP_ERR_NO_MEM" -> "ERR_NO_MEM"
    [] OTHER -> "ERR_FAIL"

\* the event group after set_event_group_error_(err)
set_event_group_error_(bits, err) ==
  IF err = "ESP_OK" THEN bits ELSE bits \cup {ErrBit(err)}

\* a set_event_group_error_ that reports success whatever the error
ErrorReturn_True(err) ==
  TRUE

\* set_event_group_error_: its return value, true when err is ESP_OK
ErrorReturn(err) ==
  err = "ESP_OK"

\* (int16_t) x
ToInt16(x) ==
  ((x + 32768) % 65536) - 32768

\* a multiplication that shifts the product by 14 bits
q15_multiplication_Q14(s, c) ==
  ToInt16((s * c) \div 16384)

\* q15_multiplication of one sample: (int16_t) (((int32_t) s * (int32_t) c) >> 15)
q15_multiplication(s, c) ==
  ToInt16((s * c) \div 32768)

\* remap<ssize_t, float>(volume, 0.0f, 1.0f, 0, size - 1), volume given in
\* hundredths: (value - min) * (max_out - min_out) / (max - min) + min_out in
\* float, converted to ssize_t by truncation towards zero
TruncDiv(a, b) ==
  IF a >= 0 THEN a \div b ELSE -((-a) \div b)

\* an index of remap that would address entry 100 for volume 1.0
DecibelIndex_Size(v) ==
  TruncDiv(v * Len(q15_volume_scaling_factors), 100)

DecibelIndex(v) ==
  TruncDiv(v * (Len(q15_volume_scaling_factors) - 1), 100)

\* what a read of q15_volume_scaling_factors[i] outside the vector's storage
\* can yield (undefined behaviour: whatever int16_t lies there)
OutOfTable == {-32768, -1, 0, 1, 32767}

\* q15_volume_scaling_factors[i], line 145: the values the read can yield
TableRead(i) ==
  IF i \in 0 .. (Len(q15_volume_scaling_factors) - 1)
    THEN {q15_volume_scaling_factors[i + 1]}
    ELSE OutOfTable

\* the inputs the model draws from
Samples == {-32768, 20000}

Volumes == {50, 100}

\* the volumes the function specification calls set_volume with, in hundredths:
\* all of [0, 1] and VolumeOver hundredths beyond either end
VolumeInputs ==
  (0 - VolumeOver) .. (100 + VolumeOver)

\* the samples and factors the function specification multiplies
SampleInputs ==
  (-32768 .. (-32768 + SampleSpan)) \cup ((0 - SampleSpan) .. SampleSpan)
    \cup ((32767 - SampleSpan) .. 32767) \cup Samples

Gains ==
  {q15_volume_scaling_factors[i] : i \in 1 .. Len(q15_volume_scaling_factors)}
    \cup {1, 16384, 32766}

\* results the driver calls can return (ESP-IDF)
InstallResults == {"ESP_OK", "ESP_ERR_NO_MEM"}

PinResults == {"ESP_OK", "ESP_FAIL"}

ClkResults == {"ESP_OK", "ESP_ERR_INVALID_ARG"}

\* configurations: i2s_mode_ has I2S_MODE_MASTER or not, the bits per sample
\* of audio_stream_info_ and of the sink (bits_per_sample_), the channels
Configs ==
  { [master |-> TRUE,  stream_bits |-> 16, sink_bits |-> 32, channels |-> 1],
    [master |-> FALSE, stream_bits |-> 16, sink_bits |-> 32, channels |-> 2],
    [master |-> FALSE, stream_bits |-> 32, sink_bits |-> 16, channels |-> 2],
    [master |-> TRUE,  stream_bits |-> 16, sink_bits |-> 16, channels |-> 3] }

----------------------------------------------------------------------------
VARIABLES
  comp,                 \* "i2s" or "nabu": the worker this behaviour exercises
  \* --- I2SAudioSpeaker
  cfg,                  \* i2s_mode_ / audio_stream_info_ (fixed while running)
  bits_per_sample_,     \* the sink's bits per sample
  state_,               \* speaker::State
  speaker_task_handle_, \* "null" or "task"
  task_created_,
  event_group_,         \* the set of bits that are set
  status_warning,       \* status_set_warning() was called
  q15_volume_factor_,
  audio_ring_buffer_,   \* [alloc: BOOLEAN, data: sequence of [id, val]]
  data_buffer_,         \* "null", "alloc" or "freed" (a dangling pointer)
  lock,                 \* parent_'s lock: "free", "speaker" or "other"
  driver,               \* the I2S driver is installed
  mpc,                  \* where the main thread is ("idle": between calls)
  tpc,                  \* where the speaker task is ("none": no task)
  stop_gracefully,
  elapsed,              \* millis() - last_data_received_time, in read timeouts
  block,                \* the samples the task read into data_buffer_
  scale,                \* the task decided to scale the block
  crashed,              \* a null / freed pointer was dereferenced: the program halts
  volume_,              \* in hundredths
  decibel_index,        \* set_volume's index into q15_volume_scaling_factors
  mul_input,            \* q15_multiplication: input[i], c and output[i] of the
  mul_c,                \*   last sample multiplied by a direct call
  mul_output,
  \* --- history of the current run of the task (not program state)
  accepted,             \* samples accepted by play(), in order
  consumed,             \* number of samples the task read
  passed,               \* samples passed to i2s_write / i2s_write_expand
  signalled,            \* STATE_ bits set (i2s) / events sent (nabu), in order
  setup_failed,
  hard,                 \* hard stop: "no", "seen", "silenced", "wrote"
  empty_at,             \* Len(accepted) at the last empty read, -1 if none
  sink_unowned,         \* a sink operation ran without the lock
  unlock_unowned,       \* unlock() was called without holding the lock
  noop_start,           \* start() returned at line 128 at least once
  idle_reads,           \* reads in a row that returned no data
  previous_task,        \* the task of the run before exists still: it has not
                        \*   reached its vTaskDelete
  dma_zeroed,           \* the sink's DMA buffers hold zeroes: i2s_zero_dma_buffer was
                        \*   the last operation that filled them
  \* --- NabuMediaPlayer speaker task
  spc,                  \* where the nabu speaker task is
  speaker_event_queue_,
  speaker_command_queue_,
  mixer,                \* blocks the combine streamer holds for read()
  \* --- NabuMediaPlayer: the main loop (the Orchestrator)
  opc,                  \* where the main thread is ("idle": between calls)
  media_control_command_queue_,
  pipeline_,            \* media_pipeline_ / announcement_pipeline_ is not nullptr
  pipeline_state_,      \* media_pipeline_state_ / announcement_pipeline_state_
  retry,                \* calls left for the retry "media_start" / "ann_start"
  start_pending,        \* a new source was set while the pipeline was active and
                        \*   start() was not called since (not program state)
  is_paused_,
  is_muted_,
  is_idle_muted_,
  state,                \* the published media_player state
  dac_muted,            \* the DAC's mute registers
  dac_failed,           \* a write to the DAC failed at least once
  combine_cmd,          \* the last PAUSE_MEDIA / RESUME_MEDIA sent to combine_streamer_
  \* --- the CombineStreamer (its code is not in these files)
  ducking_ratio,        \* the ratio applied to the media source, in hundredths
  ducking_released,     \* the mixer restored a ratio below 1.0 (not program state)
  \* --- the two Pipelines (their code is not in these files)
  pipe_phase,           \* where the pipeline's run is
  pipe_events,          \* the pipeline's queue of status events
  pipe_stop,            \* a STOP command waits in the pipeline's command queue
  \* --- budgets of the model
  faults,               \* failures injected so far (allocation, driver, write, task creation)
  calls                 \* calls of start, stop, finish, play and set_volume so far

vars ==
  << comp, cfg, bits_per_sample_, state_, speaker_task_handle_, task_created_,
     event_group_, status_warning, q15_volume_factor_, audio_ring_buffer_,
     data_buffer_, lock, driver, mpc, tpc, stop_gracefully, elapsed, block, scale,
     crashed, volume_, decibel_index, mul_input, mul_c, mul_output, accepted,
     consumed, passed, signalled, setup_failed, hard, empty_at, sink_unowned,
     unlock_unowned, noop_start, idle_reads, previous_task, dma_zeroed, spc,
     speaker_event_queue_, speaker_command_queue_, mixer, opc,
     media_control_command_queue_, pipeline_, pipeline_state_, retry, start_pending,
     is_paused_, is_muted_, is_idle_muted_, state, dac_muted, dac_failed, combine_cmd,
     ducking_ratio, ducking_released, pipe_phase, pipe_events, pipe_stop, faults,
     calls >>

\* the two pipelines the player owns
Pipelines ==
  {"media", "announcement"}

\* a call of the environment succeeds, or fails within the budget of failures
Outcome(ok) ==
  IF ok THEN faults' = faults ELSE faults < MaxFaults /\ faults' = faults + 1

\* a call from the application, within the budget of calls
Called ==
  calls < MaxCalls /\ calls' = calls + 1

NullBuffer ==
  [alloc |-> FALSE, data |-> << >>]

Min(a, b) ==
  IF a <= b THEN a ELSE b

Init ==
  /\ comp \in {"i2s", "nabu"}
  /\ cfg \in (IF comp = "i2s" THEN Configs
                              ELSE {CHOOSE c \in Configs : c.master /\ c.channels = 1})
  /\ bits_per_sample_ = cfg.sink_bits
  /\ state_ = "STOPPED"
  /\ speaker_task_handle_ = "null"
  /\ task_created_ = FALSE
  /\ event_group_ = {}
  /\ status_warning = FALSE
  /\ q15_volume_factor_ = INT16_MAX
  /\ audio_ring_buffer_ = NullBuffer
  /\ data_buffer_ = "null"
  /\ lock = "free"
  /\ driver = FALSE
  /\ mpc = "idle"
  /\ tpc = "none"
  /\ stop_gracefully = FALSE
  /\ elapsed = 0
  /\ block = << >>
  /\ scale = FALSE
  /\ crashed = FALSE
  /\ volume_ = 100
  /\ decibel_index = DecibelIndex(100)
  /\ mul_input = 0
  /\ mul_c = 0
  /\ mul_output = 0
  /\ accepted = << >>
  /\ consumed = 0
  /\ passed = << >>
  /\ signalled = << >>
  /\ setup_failed = FALSE
  /\ hard = "no"
  /\ empty_at = -1
  /\ sink_unowned = FALSE
  /\ unlock_unowned = FALSE
  /\ noop_start = FALSE
  /\ idle_reads = 0
  /\ previous_task = FALSE
  /\ dma_zeroed = FALSE
  /\ spc = "none"
  /\ speaker_event_queue_ = << >>
  /\ speaker_command_queue_ = << >>
  /\ mixer = 0
  /\ opc = "idle"
  /\ media_control_command_queue_ = << >>
  /\ pipeline_ = [p \in Pipelines |-> FALSE]
  /\ pipeline_state_ = [p \in Pipelines |-> "STOPPED"]
  /\ retry = [p \in Pipelines |-> 0]
  /\ start_pending = [p \in Pipelines |-> FALSE]
  /\ is_paused_ = FALSE
  /\ is_muted_ = FALSE
  /\ is_idle_muted_ = FALSE
  /\ state = "IDLE"
  /\ dac_muted = FALSE
  /\ dac_failed = FALSE
  /\ combine_cmd = "none"
  /\ ducking_ratio = 100
  /\ ducking_released = FALSE
  /\ pipe_phase = [p \in Pipelines |-> "off"]
  /\ pipe_events = [p \in Pipelines |-> << >>]
  /\ pipe_stop = [p \in Pipelines |-> FALSE]
  /\ faults = 0
  /\ calls = 0

----------------------------------------------------------------------------
\* I2SAudioSpeaker: the main thread.  The component is set up (is_failed() is
\* false): setup() created the event group.

MSG == "MESSAGE_RING_BUFFER_AVAILABLE_TO_WRITE"

runHistory ==
  << accepted, consumed, passed, signalled, setup_failed, hard, empty_at >>

\* the history of a run starts when its task is created
ResetRunHistory ==
  /\ accepted' = << >>
  /\ consumed' = 0
  /\ passed' = << >>
  /\ signalled' = << >>
  /\ setup_failed' = FALSE
  /\ hard' = "no"
  /\ empty_at' = -1

AlreadyStarted_OnlyRunning(st) ==
  st = "RUNNING"

\* start(), lines 127-128: the states in which start() returns at once
AlreadyStarted(st) ==
  st \in {"STARTING", "RUNNING"}

\* start(), lines 127-135 and 137-139: everything but task_created_ = true.
\* ret is where the caller continues, flag where it sets task_created_.
start(ret, flag) ==
  IF AlreadyStarted(state_)
    THEN /\ mpc' = ret
         /\ noop_start' = TRUE
         /\ UNCHANGED << speaker_task_handle_, tpc, event_group_, runHistory, faults,
                         previous_task >>
    ELSE IF speaker_task_handle_ = "null"
      THEN \E created \in BOOLEAN :
             /\ Outcome(created)
             /\ IF created
                  THEN /\ speaker_task_handle_' = "task"
                       /\ previous_task' = (previous_task \/ tpc # "none")
                       /\ tpc' = "wait_cmd"
                       /\ event_group_' = event_group_ \cup {"COMMAND_START"}
                       /\ mpc' = flag
                       /\ ResetRunHistory
                  ELSE /\ event_group_' = event_group_ \cup {"ERR_TASK_FAILED_TO_START"}
                       /\ mpc' = ret
                       /\ UNCHANGED << speaker_task_handle_, tpc, runHistory, previous_task >>
             /\ UNCHANGED noop_start
      ELSE /\ event_group_' = event_group_ \cup {"COMMAND_START"}
           /\ mpc' = flag
           /\ UNCHANGED << speaker_task_handle_, tpc, runHistory, faults, noop_start,
                           previous_task >>

\* a call of start()
Start ==
  /\ comp = "i2s"
  /\ mpc = "idle"
  /\ Called
  /\ start("idle", "start_flag")
  /\ UNCHANGED << comp, cfg, bits_per_sample_, state_, task_created_, status_warning,
                  q15_volume_factor_, audio_ring_buffer_, data_buffer_, lock, driver,
                  stop_gracefully, elapsed, block, scale, crashed, volume_,
                  decibel_index, mul_input, mul_c, mul_output, sink_unowned,
                  unlock_unowned, idle_reads, dma_zeroed, spc, speaker_event_queue_,
                  speaker_command_queue_, mixer, opc, media_control_command_queue_,
                  pipeline_, pipeline_state_, retry, start_pending, is_paused_,
                  is_muted_, is_idle_muted_, state, dac_muted, dac_failed, combine_cmd,
                  ducking_ratio, ducking_released, pipe_phase, pipe_events, pipe_stop >>

\* start(), line 136: task_created_ = true, after the bit was set
StartFlag ==
  /\ mpc \in {"start_flag", "play_start_flag"}
  /\ task_created_' = TRUE
  /\ mpc' = IF mpc = "play_start_flag" THEN "play_wait" ELSE "idle"
  /\ UNCHANGED << comp, cfg, bits_per_sample_, state_, speaker_task_handle_,
                  event_group_, status_warning, q15_volume_factor_, audio_ring_buffer_,
                  data_buffer_, lock, driver, tpc, stop_gracefully, elapsed, block,
                  scale, crashed, volume_, decibel_index, mul_input, mul_c, mul_output,
                  accepted, consumed, passed, signalled, setup_failed, hard, empty_at,
                  sink_unowned, unlock_unowned, noop_start, idle_reads, previous_task,
                  dma_zeroed, spc, speaker_event_queue_, speaker_command_queue_, mixer,
                  opc, media_control_command_queue_, pipeline_, pipeline_state_, retry,
                  start_pending, is_paused_, is_muted_, is_idle_muted_, state, dac_muted,
                  dac_failed, combine_cmd, ducking_ratio, ducking_released, pipe_phase,
                  pipe_events, pipe_stop, faults, calls >>

\* stop_(wait_on_empty): the bit it sets
stop_(wait_on_empty) ==
  IF wait_on_empty THEN "COMMAND_STOP_GRACEFULLY" ELSE "COMMAND_STOP"

\* stop() and finish(); a call with state_ == STATE_STOPPED returns at once
Stop(wait_on_empty) ==
  /\ comp = "i2s"
  /\ mpc = "idle"
  /\ state_ # "STOPPED"
  /\ Called
  /\ event_group_' = event_group_ \cup {stop_(wait_on_empty)}
  /\ UNCHANGED << comp, cfg, bits_per_sample_, state_, speaker_task_handle_,
                  task_created_, status_warning, q15_volume_factor_, audio_ring_buffer_,
                  data_buffer_, lock, driver, mpc, tpc, stop_gracefully, elapsed, block,
                  scale, crashed, volume_, decibel_index, mul_input, mul_c, mul_output,
                  accepted, consumed, passed, signalled, setup_failed, hard, empty_at,
                  sink_unowned, unlock_unowned, noop_start, idle_reads, previous_task,
                  dma_zeroed, spc, speaker_event_queue_, speaker_command_queue_, mixer,
                  opc, media_control_command_queue_, pipeline_, pipeline_state_, retry,
                  start_pending, is_paused_, is_muted_, is_idle_muted_, state, dac_muted,
                  dac_failed, combine_cmd, ducking_ratio, ducking_released, pipe_phase,
                  pipe_events, pipe_stop, faults >>

\* set_volume(volume), volume in hundredths: the factors it can store
set_volume(v) ==
  TableRead(DecibelIndex(v))

\* set_volume(volume), lines 143-145
SetVolumeTo(v) ==
  /\ volume_' = v
  /\ decibel_index' = DecibelIndex(v)
  /\ q15_volume_factor_' \in set_volume(v)

SetVolume ==
  /\ comp = "i2s"
  /\ mpc = "idle"
  /\ Called
  /\ \E v \in Volumes : SetVolumeTo(v)
  /\ UNCHANGED << comp, cfg, bits_per_sample_, state_, speaker_task_handle_,
                  task_created_, event_group_, status_warning, audio_ring_buffer_,
                  data_buffer_, lock, driver, mpc, tpc, stop_gracefully, elapsed, block,
                  scale, crashed, mul_input, mul_c, mul_output, accepted, consumed,
                  passed, signalled, setup_failed, hard, empty_at, sink_unowned,
                  unlock_unowned, noop_start, idle_reads, previous_task, dma_zeroed, spc,
                  speaker_event_queue_, speaker_command_queue_, mixer, opc,
                  media_control_command_queue_, pipeline_, pipeline_state_, retry,
                  start_pending, is_paused_, is_muted_, is_idle_muted_, state, dac_muted,
                  dac_failed, combine_cmd, ducking_ratio, ducking_released, pipe_phase,
                  pipe_events, pipe_stop, faults >>

\* loop(), lines 369-391: the state_ it leaves, given the bits read, task_created_
\* and the state_ before
LoopState(bits, tc, st) ==
  LET s1 == IF "STATE_STARTING" \in bits THEN "STARTING" ELSE st
      s2 == IF "STATE_RUNNING" \in bits THEN "RUNNING" ELSE s1
      s3 == IF "STATE_STOPPING" \in bits THEN "STOPPING" ELSE s2
  IN  IF "STATE_STOPPED" \in bits /\ ~tc THEN "STOPPED" ELSE s3

\* loop(), lines 372, 377, 382, 388: the event group after the bits are cleared
LoopClear(bits, tc, group) ==
  IF "STATE_STOPPED" \in bits /\ ~tc
    THEN group \ ALL_BITS
    ELSE group \ (bits \cap {"STATE_STARTING", "STATE_RUNNING", "STATE_STOPPING"})

\* a loop() that resets the handle on STATE_STOPPED whatever task_created_ is
LoopHandle_NoFlag(bits, tc, handle) ==
  IF "STATE_STOPPED" \in bits THEN "null" ELSE handle

\* loop(), lines 384-390: speaker_task_handle_ after the pass
LoopHandle(bits, tc, handle) ==
  IF "STATE_STOPPED" \in bits /\ ~tc THEN "null" ELSE handle

\* loop(), lines 360-392, with event_group_bits the bits read at line 361
loop ==
  /\ comp = "i2s"
  /\ mpc = "idle"
  /\ LET event_group_bits == event_group_
     IN  /\ status_warning' = (status_warning \/ (event_group_bits \cap ERROR_BITS # {}))
         /\ state_' = LoopState(event_group_bits, task_created_, state_)
         /\ event_group_' = LoopClear(event_group_bits, task_created_, event_group_)
         /\ speaker_task_handle_' =
              LoopHandle(event_group_bits, task_created_, speaker_task_handle_)
  /\ UNCHANGED << comp, cfg, bits_per_sample_, task_created_, q15_volume_factor_,
                  audio_ring_buffer_, data_buffer_, lock, driver, mpc, tpc,
                  stop_gracefully, elapsed, block, scale, crashed, volume_,
                  decibel_index, mul_input, mul_c, mul_output, accepted, consumed,
                  passed, signalled, setup_failed, hard, empty_at, sink_unowned,
                  unlock_unowned, noop_start, idle_reads, previous_task, dma_zeroed, spc,
                  speaker_event_queue_, speaker_command_queue_, mixer, opc,
                  media_control_command_queue_, pipeline_, pipeline_state_, retry,
                  start_pending, is_paused_, is_muted_, is_idle_muted_, state, dac_muted,
                  dac_failed, combine_cmd, ducking_ratio, ducking_released, pipe_phase,
                  pipe_events, pipe_stop, faults, calls >>

\* play(), lines 399-401
PlayCall ==
  /\ comp = "i2s"
  /\ mpc = "idle"
  /\ Called
  /\ IF state_ # "RUNNING" /\ state_ # "STARTING"
       THEN start("play_wait", "play_start_flag")
       ELSE /\ mpc' = "play_wait"
            /\ UNCHANGED << speaker_task_handle_, tpc, event_group_, runHistory, faults,
                            noop_start, previous_task >>
  /\ UNCHANGED << comp, cfg, bits_per_sample_, state_, task_created_, status_warning,
                  q15_volume_factor_, audio_ring_buffer_, data_buffer_, lock, driver,
                  stop_gracefully, elapsed, block, scale, crashed, volume_,
                  decibel_index, mul_input, mul_c, mul_output, sink_unowned,
                  unlock_unowned, idle_reads, dma_zeroed, spc, speaker_event_queue_,
                  speaker_command_queue_, mixer, opc, media_control_command_queue_,
                  pipeline_, pipeline_state_, retry, start_pending, is_paused_,
                  is_muted_, is_idle_muted_, state, dac_muted, dac_failed, combine_cmd,
                  ducking_ratio, ducking_released, pipe_phase, pipe_events, pipe_stop >>

\* play(), lines 404-410 and 419: the wait for the ring buffer, at most 10 ms,
\* and the bit cleared when it is available
PlayWait ==
  /\ mpc = "play_wait"
  /\ IF MSG \in event_group_
       THEN /\ event_group_' = event_group_ \ {MSG}
            /\ mpc' = "play_write"
       ELSE /\ mpc' = "idle"
            /\ UNCHANGED event_group_
  /\ UNCHANGED << comp, cfg, bits_per_sample_, state_, speaker_task_handle_,
                  task_created_, status_warning, q15_volume_factor_, audio_ring_buffer_,
                  data_buffer_, lock, driver, tpc, stop_gracefully, elapsed, block,
                  scale, crashed, volume_, decibel_index, mul_input, mul_c, mul_output,
                  accepted, consumed, passed, signalled, setup_failed, hard, empty_at,
                  sink_unowned, unlock_unowned, noop_start, idle_reads, previous_task,
                  dma_zeroed, spc, speaker_event_queue_, speaker_command_queue_, mixer,
                  opc, media_control_command_queue_, pipeline_, pipeline_state_, retry,
                  start_pending, is_paused_, is_muted_, is_idle_muted_, state, dac_muted,
                  dac_failed, combine_cmd, ducking_ratio, ducking_released, pipe_phase,
                  pipe_events, pipe_stop, faults, calls >>

\* RingBuffer::write_without_replacement: the samples of data that fit
write_without_replacement(buf, data) ==
  SubSeq(data, 1, Min(Len(data), RingCap - Len(buf)))

\* play(), lines 412-416: the write, which dereferences audio_ring_buffer_,
\* and the bit set again
PlayWrite ==
  /\ mpc = "play_write"
  /\ IF ~audio_ring_buffer_.alloc
       THEN /\ crashed' = TRUE
            /\ mpc' = "halt"
            /\ tpc' = "halt"
            /\ UNCHANGED << audio_ring_buffer_, accepted, event_group_ >>
       ELSE /\ \E n \in 0 .. Min(2, MaxAccepted - Len(accepted)) :
                 \E data \in [1 .. n -> Samples] :
                   LET w == write_without_replacement(audio_ring_buffer_.data, data)
                       tagged == [i \in 1 .. Len(w) |->
                                    [id |-> Len(accepted) + i, val |-> w[i]]]
                   IN  /\ n > 0 \/ MaxAccepted = Len(accepted)
                       /\ audio_ring_buffer_' =
                            [audio_ring_buffer_ EXCEPT !.data = @ \o tagged]
                       /\ accepted' = accepted \o w
            /\ event_group_' = event_group_ \cup {MSG}
            /\ mpc' = "idle"
            /\ UNCHANGED << crashed, tpc >>
  /\ UNCHANGED << comp, cfg, bits_per_sample_, state_, speaker_task_handle_,
                  task_created_, status_warning, q15_volume_factor_, data_buffer_, lock,
                  driver, stop_gracefully, elapsed, block, scale, volume_, decibel_index,
                  mul_input, mul_c, mul_output, consumed, passed, signalled,
                  setup_failed, hard, empty_at, sink_unowned, unlock_unowned, noop_start,
                  idle_reads, previous_task, dma_zeroed, spc, speaker_event_queue_,
                  speaker_command_queue_, mixer, opc, media_control_command_queue_,
                  pipeline_, pipeline_state_, retry, start_pending, is_paused_,
                  is_muted_, is_idle_muted_, state, dac_muted, dac_failed, combine_cmd,
                  ducking_ratio, ducking_released, pipe_phase, pipe_events, pipe_stop,
                  faults, calls >>

\* another user of the I2S bus (parent_) takes and releases its lock
OtherLock ==
  /\ comp = "i2s"
  /\ ~crashed
  /\ lock \in {"free", "other"}
  /\ lock' = IF lock = "free" THEN "other" ELSE "free"
  /\ UNCHANGED << comp, cfg, bits_per_sample_, state_, speaker_task_handle_,
                  task_created_, event_group_, status_warning, q15_volume_factor_,
                  audio_ring_buffer_, data_buffer_, driver, mpc, tpc, stop_gracefully,
                  elapsed, block, scale, crashed, volume_, decibel_index, mul_input,
                  mul_c, mul_output, accepted, consumed, passed, signalled, setup_failed,
                  hard, empty_at, sink_unowned, unlock_unowned, noop_start, idle_reads,
                  previous_task, dma_zeroed, spc, speaker_event_queue_,
                  speaker_command_queue_, mixer, opc, media_control_command_queue_,
                  pipeline_, pipeline_state_, retry, start_pending, is_paused_,
                  is_muted_, is_idle_muted_, state, dac_muted, dac_failed, combine_cmd,
                  ducking_ratio, ducking_released, pipe_phase, pipe_events, pipe_stop,
                  faults, calls >>

----------------------------------------------------------------------------
\* I2SAudioSpeaker::speaker_task and delete_task_.  The operations on the I2S
\* port (install, set_pin, set_clk, write, zero, stop, uninstall) are the sink
\* operations; each records whether the task held parent_'s lock.

SinkOp ==
  sink_unowned' = (sink_unowned \/ lock # "speaker")

\* a task that sets STATE_STARTING again where it tears down
TaskSignal_Restart(stage) ==
  CASE stage = "set_starting" -> "STATE_STARTING"
    [] stage = "set_running" -> "STATE_RUNNING"
    [] stage = "stopping" -> "STATE_STARTING"
    [] OTHER -> "STATE_STOPPED"

\* the STATE_ bit the task sets at each stage: lines 252, 279, 334 and 230
TaskSignal(stage) ==
  CASE stage = "set_starting" -> "STATE_STARTING"
    [] stage = "set_running" -> "STATE_RUNNING"
    [] stage = "stopping" -> "STATE_STOPPING"
    [] OTHER -> "STATE_STOPPED"

\* lines 238-250: the wait for a command, which clears the command bits
TaskWaitCommand ==
  /\ tpc = "wait_cmd"
  /\ event_group_ \cap COMMAND_BITS # {}
  /\ event_group_' = event_group_ \ COMMAND_BITS
  /\ tpc' = IF event_group_ \cap {"COMMAND_STOP", "COMMAND_STOP_GRACEFULLY"} # {}
              THEN "del_wait" ELSE "set_starting"
  /\ UNCHANGED << comp, cfg, bits_per_sample_, state_, speaker_task_handle_,
                  task_created_, status_warning, q15_volume_factor_, audio_ring_buffer_,
                  data_buffer_, lock, driver, mpc, stop_gracefully, elapsed, block,
                  scale, crashed, volume_, decibel_index, mul_input, mul_c, mul_output,
                  accepted, consumed, passed, signalled, setup_failed, hard, empty_at,
                  sink_unowned, unlock_unowned, noop_start, idle_reads, previous_task,
                  dma_zeroed, spc, speaker_event_queue_, speaker_command_queue_, mixer,
                  opc, media_control_command_queue_, pipeline_, pipeline_state_, retry,
                  start_pending, is_paused_, is_muted_, is_idle_muted_, state, dac_muted,
                  dac_failed, combine_cmd, ducking_ratio, ducking_released, pipe_phase,
                  pipe_events, pipe_stop, faults, calls >>

\* line 252
TaskSetStarting ==
  /\ tpc = "set_starting"
  /\ event_group_' = event_group_ \cup {TaskSignal(tpc)}
  /\ signalled' = Append(signalled, TaskSignal(tpc))
  /\ tpc' = "alloc"
  /\ UNCHANGED << comp, cfg, bits_per_sample_, state_, speaker_task_handle_,
                  task_created_, status_warning, q15_volume_factor_, audio_ring_buffer_,
                  data_buffer_, lock, driver, mpc, stop_gracefully, elapsed, block,
                  scale, crashed, volume_, decibel_index, mul_input, mul_c, mul_output,
                  accepted, consumed, passed, setup_failed, hard, empty_at, sink_unowned,
                  unlock_unowned, noop_start, idle_reads, previous_task, dma_zeroed, spc,
                  speaker_event_queue_, speaker_command_queue_, mixer, opc,
                  media_control_command_queue_, pipeline_, pipeline_state_, retry,
                  start_pending, is_paused_, is_muted_, is_idle_muted_, state, dac_muted,
                  dac_failed, combine_cmd, ducking_ratio, ducking_released, pipe_phase,
                  pipe_events, pipe_stop, faults, calls >>

\* lines 254-269: the two allocations, each of which may fail, and ERR_NO_MEM
\* when one did
TaskAllocate ==
  /\ tpc = "alloc"
  /\ \E data_ok \in BOOLEAN, ring_ok \in BOOLEAN :
       /\ audio_ring_buffer_.alloc => ring_ok
       /\ Outcome(data_ok /\ ring_ok)
       /\ data_buffer_' = IF data_ok THEN "alloc" ELSE "null"
       /\ audio_ring_buffer_' =
            IF audio_ring_buffer_.alloc THEN audio_ring_buffer_
            ELSE IF ring_ok THEN [alloc |-> TRUE, data |-> << >>] ELSE NullBuffer
       /\ IF data_ok /\ ring_ok
            THEN /\ tpc' = "start_driver"
                 /\ UNCHANGED << event_group_, setup_failed >>
            ELSE /\ event_group_' = event_group_ \cup {"ERR_NO_MEM"}
                 /\ setup_failed' = TRUE
                 /\ tpc' = "del_wait"
  /\ UNCHANGED << comp, cfg, bits_per_sample_, state_, speaker_task_handle_,
                  task_created_, status_warning, q15_volume_factor_, lock, driver, mpc,
                  stop_gracefully, elapsed, block, scale, crashed, volume_,
                  decibel_index, mul_input, mul_c, mul_output, accepted, consumed,
                  passed, signalled, hard, empty_at, sink_unowned, unlock_unowned,
                  noop_start, idle_reads, previous_task, dma_zeroed, spc,
                  speaker_event_queue_, speaker_command_queue_, mixer, opc,
                  media_control_command_queue_, pipeline_, pipeline_state_, retry,
                  start_pending, is_paused_, is_muted_, is_idle_muted_, state, dac_muted,
                  dac_failed, combine_cmd, ducking_ratio, ducking_released, pipe_phase,
                  pipe_events, pipe_stop, calls >>

\* a start_i2s_driver_ that returns the error without unlocking
DriverFailUnlock_Keep(l) ==
  l

\* what start_i2s_driver_ does to the lock when a driver call fails: unlock()
DriverFailUnlock(l) ==
  "free"

\* start_i2s_driver_, lines 148-195: try_lock, i2s_driver_install, i2s_set_pin;
\* the error returned, and the lock and the driver it leaves
start_i2s_driver_(l, install, pin) ==
  IF l # "free"
    THEN [err |-> "ESP_ERR_INVALID_STATE", lock |-> l, driver |-> FALSE]
    ELSE IF install # "ESP_OK"
      THEN [err |-> install, lock |-> DriverFailUnlock("speaker"), driver |-> FALSE]
      ELSE IF pin # "ESP_OK"
        THEN [err |-> pin, lock |-> DriverFailUnlock("speaker"), driver |-> FALSE]
        ELSE [err |-> "ESP_OK", lock |-> "speaker", driver |-> TRUE]

\* lines 271-274: the driver is started; the task is deleted if that failed
TaskStartDriver ==
  /\ tpc = "start_driver"
  /\ \E install \in InstallResults, pin \in PinResults :
       LET r == start_i2s_driver_(lock, install, pin)
       IN  /\ lock = "free" /\ install # "ESP_OK" => pin = "ESP_OK"
           /\ lock # "free" => install = "ESP_OK" /\ pin = "ESP_OK"
           /\ Outcome(lock # "free" \/ r.err = "ESP_OK")
           /\ lock' = r.lock
           /\ driver' = r.driver
           /\ event_group_' = set_event_group_error_(event_group_, r.err)
           /\ setup_failed' = (r.err # "ESP_OK")
           /\ tpc' = IF ErrorReturn(r.err) THEN "stream_info" ELSE "del_wait"
  /\ UNCHANGED << comp, cfg, bits_per_sample_, state_, speaker_task_handle_,
                  task_created_, status_warning, q15_volume_factor_, audio_ring_buffer_,
                  data_buffer_, mpc, stop_gracefully, elapsed, block, scale, crashed,
                  volume_, decibel_index, mul_input, mul_c, mul_output, accepted,
                  consumed, passed, signalled, hard, empty_at, sink_unowned,
                  unlock_unowned, noop_start, idle_reads, previous_task, dma_zeroed, spc,
                  speaker_event_queue_, speaker_command_queue_, mixer, opc,
                  media_control_command_queue_, pipeline_, pipeline_state_, retry,
                  start_pending, is_paused_, is_muted_, is_idle_muted_, state, dac_muted,
                  dac_failed, combine_cmd, ducking_ratio, ducking_released, pipe_phase,
                  pipe_events, pipe_stop, calls >>

\* set_i2s_stream_info_, lines 197-211: the error returned
set_i2s_stream_info_(channels, clk) ==
  IF channels \in {1, 2} THEN clk ELSE "ESP_ERR_INVALID_ARG"

\* line 276 and set_i2s_stream_info_: a master sets bits_per_sample_ to the
\* stream's; on an error the task skips its loop
TaskStreamInfo ==
  /\ tpc = "stream_info"
  /\ SinkOp
  /\ bits_per_sample_' = IF cfg.master THEN cfg.stream_bits ELSE bits_per_sample_
  /\ \E clk \in ClkResults :
       LET r == set_i2s_stream_info_(cfg.channels, clk)
       IN  /\ cfg.channels \notin {1, 2} => clk = "ESP_OK"
           /\ Outcome(clk = "ESP_OK")
           /\ event_group_' = set_event_group_error_(event_group_, r)
           /\ setup_failed' = (setup_failed \/ r # "ESP_OK")
           /\ tpc' = IF ErrorReturn(r) THEN "set_running" ELSE "stopping"
  /\ UNCHANGED << comp, cfg, state_, speaker_task_handle_, task_created_, status_warning,
                  q15_volume_factor_, audio_ring_buffer_, data_buffer_, lock, driver,
                  mpc, stop_gracefully, elapsed, block, scale, crashed, volume_,
                  decibel_index, mul_input, mul_c, mul_output, accepted, consumed,
                  passed, signalled, hard, empty_at, unlock_unowned, noop_start,
                  idle_reads, previous_task, dma_zeroed, spc, speaker_event_queue_,
                  speaker_command_queue_, mixer, opc, media_control_command_queue_,
                  pipeline_, pipeline_state_, retry, start_pending, is_paused_,
                  is_muted_, is_idle_muted_, state, dac_muted, dac_failed, combine_cmd,
                  ducking_ratio, ducking_released, pipe_phase, pipe_events, pipe_stop,
                  calls >>

\* lines 279-284
TaskSetRunning ==
  /\ tpc = "set_running"
  /\ event_group_' = event_group_ \cup {TaskSignal(tpc), MSG}
  /\ signalled' = Append(signalled, TaskSignal(tpc))
  /\ stop_gracefully' = FALSE
  /\ elapsed' = 0
  /\ idle_reads' = 0
  /\ tpc' = "loop_top"
  /\ UNCHANGED << comp, cfg, bits_per_sample_, state_, speaker_task_handle_,
                  task_created_, status_warning, q15_volume_factor_, audio_ring_buffer_,
                  data_buffer_, lock, driver, mpc, block, scale, crashed, volume_,
                  decibel_index, mul_input, mul_c, mul_output, accepted, consumed,
                  passed, setup_failed, hard, empty_at, sink_unowned, unlock_unowned,
                  noop_start, previous_task, dma_zeroed, spc, speaker_event_queue_,
                  speaker_command_queue_, mixer, opc, media_control_command_queue_,
                  pipeline_, pipeline_state_, retry, start_pending, is_paused_,
                  is_muted_, is_idle_muted_, state, dac_muted, dac_failed, combine_cmd,
                  ducking_ratio, ducking_released, pipe_phase, pipe_events, pipe_stop,
                  faults, calls >>

\* lines 286-295: the loop condition and the check for a stop command
TaskLoopTop ==
  /\ tpc = "loop_top"
  /\ IF elapsed > TimeoutReads
       THEN /\ tpc' = "stopping"
            /\ UNCHANGED << hard, stop_gracefully >>
       ELSE IF "COMMAND_STOP" \in event_group_
         THEN /\ hard' = "seen"
              /\ tpc' = "zero_stop"
              /\ UNCHANGED stop_gracefully
         ELSE /\ stop_gracefully' =
                   (stop_gracefully \/ "COMMAND_STOP_GRACEFULLY" \in event_group_)
              /\ tpc' = "read"
              /\ UNCHANGED hard
  /\ UNCHANGED << comp, cfg, bits_per_sample_, state_, speaker_task_handle_,
                  task_created_, event_group_, status_warning, q15_volume_factor_,
                  audio_ring_buffer_, data_buffer_, lock, driver, mpc, elapsed, block,
                  scale, crashed, volume_, decibel_index, mul_input, mul_c, mul_output,
                  accepted, consumed, passed, signalled, setup_failed, empty_at,
                  sink_unowned, unlock_unowned, noop_start, idle_reads, previous_task,
                  dma_zeroed, spc, speaker_event_queue_, speaker_command_queue_, mixer,
                  opc, media_control_command_queue_, pipeline_, pipeline_state_, retry,
                  start_pending, is_paused_, is_muted_, is_idle_muted_, state, dac_muted,
                  dac_failed, combine_cmd, ducking_ratio, ducking_released, pipe_phase,
                  pipe_events, pipe_stop, faults, calls >>

\* a task that breaks out of its loop without zeroing the DMA buffer
HardStopSilence_None(h) ==
  h

\* what the task does to the sink on COMMAND_STOP: i2s_zero_dma_buffer
HardStopSilence(h) ==
  IF h = "seen" THEN "silenced" ELSE h

\* lines 290-291
TaskZeroStop ==
  /\ tpc = "zero_stop"
  /\ SinkOp
  /\ hard' = HardStopSilence(hard)
  /\ dma_zeroed' = TRUE
  /\ tpc' = "stopping"
  /\ UNCHANGED << comp, cfg, bits_per_sample_, state_, speaker_task_handle_,
                  task_created_, event_group_, status_warning, q15_volume_factor_,
                  audio_ring_buffer_, data_buffer_, lock, driver, mpc, stop_gracefully,
                  elapsed, block, scale, crashed, volume_, decibel_index, mul_input,
                  mul_c, mul_output, accepted, consumed, passed, signalled, setup_failed,
                  empty_at, unlock_unowned, noop_start, idle_reads, previous_task, spc,
                  speaker_event_queue_, speaker_command_queue_, mixer, opc,
                  media_control_command_queue_, pipeline_, pipeline_state_, retry,
                  start_pending, is_paused_, is_muted_, is_idle_muted_, state, dac_muted,
                  dac_failed, combine_cmd, ducking_ratio, ducking_released, pipe_phase,
                  pipe_events, pipe_stop, faults, calls >>

\* RingBuffer::read: how many of the buffered samples a read of up to max returns
read(buf, max) ==
  Min(max, Len(buf))

\* a task that leaves the DMA buffers as they are when it has read nothing
UnderrunSink_Stale(zeroed) ==
  zeroed

\* lines 324-326 (nabu: 317-318): no data was read, i2s_zero_dma_buffer
UnderrunSink(zeroed) ==
  TRUE

\* lines 297-305 and 324-331: the read, the decision to scale what was read,
\* and what follows an empty read
TaskRead ==
  /\ tpc = "read"
  /\ LET n == read(audio_ring_buffer_.data, ReadMax)
     IN  IF n > 0
           THEN /\ block' = SubSeq(audio_ring_buffer_.data, 1, n)
                /\ audio_ring_buffer_' =
                     [audio_ring_buffer_ EXCEPT
                        !.data = SubSeq(@, n + 1, Len(@))]
                /\ consumed' = consumed + n
                /\ elapsed' = 0
                /\ idle_reads' = 0
                /\ scale' = (cfg.stream_bits <= 16 /\ q15_volume_factor_ < INT16_MAX)
                /\ tpc' = "write"
                /\ UNCHANGED << empty_at, sink_unowned, dma_zeroed >>
           ELSE /\ SinkOp
                /\ dma_zeroed' = UnderrunSink(dma_zeroed)
                /\ elapsed' = Min(elapsed + 1, TimeoutReads + 1)
                /\ idle_reads' = Min(idle_reads + 1, TimeoutReads + 1)
                /\ empty_at' = Len(accepted)
                /\ tpc' = IF stop_gracefully THEN "stopping" ELSE "loop_top"
                /\ UNCHANGED << block, audio_ring_buffer_, consumed, scale >>
  /\ UNCHANGED << comp, cfg, bits_per_sample_, state_, speaker_task_handle_,
                  task_created_, event_group_, status_warning, q15_volume_factor_,
                  data_buffer_, lock, driver, mpc, stop_gracefully, crashed, volume_,
                  decibel_index, mul_input, mul_c, mul_output, accepted, passed,
                  signalled, setup_failed, hard, unlock_unowned, noop_start,
                  previous_task, spc, speaker_event_queue_, speaker_command_queue_,
                  mixer, opc, media_control_command_queue_, pipeline_, pipeline_state_,
                  retry, start_pending, is_paused_, is_muted_, is_idle_muted_, state,
                  dac_muted, dac_failed, combine_cmd, ducking_ratio, ducking_released,
                  pipe_phase, pipe_events, pipe_stop, faults, calls >>

\* lines 307-308: q15_multiplication in place, with the factor as read now
Scaled(b, factor) ==
  [i \in 1 .. Len(b) |-> [b[i] EXCEPT !.val = q15_multiplication(@, factor)]]

\* a write that hands the block to the sink whatever its width
SinkBlock_Narrowed(b, stream_bits, sink_bits) ==
  b

\* a task that hands each block to the sink twice
SinkBlock_Twice(b, stream_bits, sink_bits) ==
  IF stream_bits <= sink_bits THEN b \o b ELSE << >>

\* lines 311-318: the block handed to i2s_write / i2s_write_expand; none when
\* the stream has more bits per sample than the sink
SinkBlock(b, stream_bits, sink_bits) ==
  IF stream_bits <= sink_bits THEN b ELSE << >>

\* lines 302 and 312-317: last_data_received_time is taken before the write,
\* and i2s_write / i2s_write_expand (portMAX_DELAY) returns at once or blocks
\* until the DMA buffers have room; nothing is written when the stream has
\* more bits per sample than the sink
WriteTimes(out) ==
  IF out = << >> THEN {0} ELSE {0, MaxWriteTime}

AfterWrite_Break(all_written) ==
  IF all_written THEN "loop_top" ELSE "stopping"

\* lines 320-322 and 332: after a write, short or not, the task goes on with
\* the next iteration of its loop
AfterWrite(all_written) ==
  "loop_top"


\* lines 307-322: the scaling and the write, which may accept fewer bytes than
\* it was given
TaskWrite ==
  /\ tpc = "write"
  /\ LET data == IF scale THEN Scaled(block, q15_volume_factor_) ELSE block
         out == SinkBlock(data, cfg.stream_bits, bits_per_sample_)
     IN  /\ passed' = passed \o out
         /\ dma_zeroed' = (dma_zeroed /\ out = << >>)
         /\ hard' = IF hard # "no" /\ out # << >> THEN "wrote" ELSE hard
         /\ sink_unowned' = (sink_unowned \/ (out # << >> /\ lock # "speaker"))
         /\ \E all_written \in BOOLEAN :
              /\ out = << >> => ~all_written
              /\ Outcome(all_written \/ out = << >>)
              /\ event_group_' =
                   IF all_written THEN event_group_
                                  ELSE event_group_ \cup {"ERR_INVALID_SIZE"}
              /\ tpc' = AfterWrite(all_written)
         /\ elapsed' \in WriteTimes(out)
  /\ block' = << >>
  /\ scale' = FALSE
  /\ UNCHANGED << comp, cfg, bits_per_sample_, state_, speaker_task_handle_,
                  task_created_, status_warning, q15_volume_factor_, audio_ring_buffer_,
                  data_buffer_, lock, driver, mpc, stop_gracefully, crashed, volume_,
                  decibel_index, mul_input, mul_c, mul_output, accepted, consumed,
                  signalled, setup_failed, empty_at, unlock_unowned, noop_start,
                  idle_reads, previous_task, spc, speaker_event_queue_,
                  speaker_command_queue_, mixer, opc, media_control_command_queue_,
                  pipeline_, pipeline_state_, retry, start_pending, is_paused_,
                  is_muted_, is_idle_muted_, state, dac_muted, dac_failed, combine_cmd,
                  ducking_ratio, ducking_released, pipe_phase, pipe_events, pipe_stop,
                  calls >>

\* line 334
TaskSetStopping ==
  /\ tpc = "stopping"
  /\ event_group_' = event_group_ \cup {TaskSignal(tpc)}
  /\ signalled' = Append(signalled, TaskSignal(tpc))
  /\ tpc' = "teardown"
  /\ UNCHANGED << comp, cfg, bits_per_sample_, state_, speaker_task_handle_,
                  task_created_, status_warning, q15_volume_factor_, audio_ring_buffer_,
                  data_buffer_, lock, driver, mpc, stop_gracefully, elapsed, block,
                  scale, crashed, volume_, decibel_index, mul_input, mul_c, mul_output,
                  accepted, consumed, passed, setup_failed, hard, empty_at, sink_unowned,
                  unlock_unowned, noop_start, idle_reads, previous_task, dma_zeroed, spc,
                  speaker_event_queue_, speaker_command_queue_, mixer, opc,
                  media_control_command_queue_, pipeline_, pipeline_state_, retry,
                  start_pending, is_paused_, is_muted_, is_idle_muted_, state, dac_muted,
                  dac_failed, combine_cmd, ducking_ratio, ducking_released, pipe_phase,
                  pipe_events, pipe_stop, faults, calls >>

\* lines 336-339: i2s_stop, i2s_driver_uninstall, parent_->unlock()
TaskTeardown ==
  /\ tpc = "teardown"
  /\ SinkOp
  /\ driver' = FALSE
  /\ unlock_unowned' = (unlock_unowned \/ lock # "speaker")
  /\ lock' = "free"
  /\ tpc' = "del_wait"
  /\ UNCHANGED << comp, cfg, bits_per_sample_, state_, speaker_task_handle_,
                  task_created_, event_group_, status_warning, q15_volume_factor_,
                  audio_ring_buffer_, data_buffer_, mpc, stop_gracefully, elapsed, block,
                  scale, crashed, volume_, decibel_index, mul_input, mul_c, mul_output,
                  accepted, consumed, passed, signalled, setup_failed, hard, empty_at,
                  noop_start, idle_reads, previous_task, dma_zeroed, spc,
                  speaker_event_queue_, speaker_command_queue_, mixer, opc,
                  media_control_command_queue_, pipeline_, pipeline_state_, retry,
                  start_pending, is_paused_, is_muted_, is_idle_muted_, state, dac_muted,
                  dac_failed, combine_cmd, ducking_ratio, ducking_released, pipe_phase,
                  pipe_events, pipe_stop, faults, calls >>

\* delete_task_, lines 214-219: the wait for the ring buffer, if there is one
DeleteWait ==
  /\ tpc = "del_wait"
  /\ audio_ring_buffer_.alloc => MSG \in event_group_
  /\ tpc' = IF audio_ring_buffer_.alloc THEN "del_reset" ELSE "del_stopped"
  /\ UNCHANGED << comp, cfg, bits_per_sample_, state_, speaker_task_handle_,
                  task_created_, event_group_, status_warning, q15_volume_factor_,
                  audio_ring_buffer_, data_buffer_, lock, driver, mpc, stop_gracefully,
                  elapsed, block, scale, crashed, volume_, decibel_index, mul_input,
                  mul_c, mul_output, accepted, consumed, passed, signalled, setup_failed,
                  hard, empty_at, sink_unowned, unlock_unowned, noop_start, idle_reads,
                  previous_task, dma_zeroed, spc, speaker_event_queue_,
                  speaker_command_queue_, mixer, opc, media_control_command_queue_,
                  pipeline_, pipeline_state_, retry, start_pending, is_paused_,
                  is_muted_, is_idle_muted_, state, dac_muted, dac_failed, combine_cmd,
                  ducking_ratio, ducking_released, pipe_phase, pipe_events, pipe_stop,
                  faults, calls >>

\* delete_task_, lines 221-222
DeleteReset ==
  /\ tpc = "del_reset"
  /\ audio_ring_buffer_' = NullBuffer
  /\ tpc' = "del_stopped"
  /\ UNCHANGED << comp, cfg, bits_per_sample_, state_, speaker_task_handle_,
                  task_created_, event_group_, status_warning, q15_volume_factor_,
                  data_buffer_, lock, driver, mpc, stop_gracefully, elapsed, block,
                  scale, crashed, volume_, decibel_index, mul_input, mul_c, mul_output,
                  accepted, consumed, passed, signalled, setup_failed, hard, empty_at,
                  sink_unowned, unlock_unowned, noop_start, idle_reads, previous_task,
                  dma_zeroed, spc, speaker_event_queue_, speaker_command_queue_, mixer,
                  opc, media_control_command_queue_, pipeline_, pipeline_state_, retry,
                  start_pending, is_paused_, is_muted_, is_idle_muted_, state, dac_muted,
                  dac_failed, combine_cmd, ducking_ratio, ducking_released, pipe_phase,
                  pipe_events, pipe_stop, faults, calls >>

\* delete_task_, lines 225-230: data_buffer_ is freed, not reset
DeleteSetStopped ==
  /\ tpc = "del_stopped"
  /\ data_buffer_' = IF data_buffer_ = "null" THEN "null" ELSE "freed"
  /\ crashed' = (data_buffer_ = "freed")
  /\ event_group_' = event_group_ \cup {TaskSignal(tpc)}
  /\ signalled' = Append(signalled, TaskSignal(tpc))
  /\ tpc' = IF data_buffer_ = "freed" THEN "halt" ELSE "del_flag"
  /\ mpc' = IF data_buffer_ = "freed" THEN "halt" ELSE mpc
  /\ UNCHANGED << comp, cfg, bits_per_sample_, state_, speaker_task_handle_,
                  task_created_, status_warning, q15_volume_factor_, audio_ring_buffer_,
                  lock, driver, stop_gracefully, elapsed, block, scale, volume_,
                  decibel_index, mul_input, mul_c, mul_output, accepted, consumed,
                  passed, setup_failed, hard, empty_at, sink_unowned, unlock_unowned,
                  noop_start, idle_reads, previous_task, dma_zeroed, spc,
                  speaker_event_queue_, speaker_command_queue_, mixer, opc,
                  media_control_command_queue_, pipeline_, pipeline_state_, retry,
                  start_pending, is_paused_, is_muted_, is_idle_muted_, state, dac_muted,
                  dac_failed, combine_cmd, ducking_ratio, ducking_released, pipe_phase,
                  pipe_events, pipe_stop, faults, calls >>

\* delete_task_, line 232
DeleteFlag ==
  /\ tpc = "del_flag"
  /\ task_created_' = FALSE
  /\ tpc' = "del_delete"
  /\ UNCHANGED << comp, cfg, bits_per_sample_, state_, speaker_task_handle_,
                  event_group_, status_warning, q15_volume_factor_, audio_ring_buffer_,
                  data_buffer_, lock, driver, mpc, stop_gracefully, elapsed, block,
                  scale, crashed, volume_, decibel_index, mul_input, mul_c, mul_output,
                  accepted, consumed, passed, signalled, setup_failed, hard, empty_at,
                  sink_unowned, unlock_unowned, noop_start, idle_reads, previous_task,
                  dma_zeroed, spc, speaker_event_queue_, speaker_command_queue_, mixer,
                  opc, media_control_command_queue_, pipeline_, pipeline_state_, retry,
                  start_pending, is_paused_, is_muted_, is_idle_muted_, state, dac_muted,
                  dac_failed, combine_cmd, ducking_ratio, ducking_released, pipe_phase,
                  pipe_events, pipe_stop, faults, calls >>

\* delete_task_, line 233: vTaskDelete(NULL) ends the calling task
DeleteTask ==
  /\ tpc = "del_delete"
  /\ tpc' = "none"
  /\ UNCHANGED << comp, cfg, bits_per_sample_, state_, speaker_task_handle_,
                  task_created_, event_group_, status_warning, q15_volume_factor_,
                  audio_ring_buffer_, data_buffer_, lock, driver, mpc, stop_gracefully,
                  elapsed, block, scale, crashed, volume_, decibel_index, mul_input,
                  mul_c, mul_output, accepted, consumed, passed, signalled, setup_failed,
                  hard, empty_at, sink_unowned, unlock_unowned, noop_start, idle_reads,
                  previous_task, dma_zeroed, spc, speaker_event_queue_,
                  speaker_command_queue_, mixer, opc, media_control_command_queue_,
                  pipeline_, pipeline_state_, retry, start_pending, is_paused_,
                  is_muted_, is_idle_muted_, state, dac_muted, dac_failed, combine_cmd,
                  ducking_ratio, ducking_released, pipe_phase, pipe_events, pipe_stop,
                  faults, calls >>

\* line 233 in the task of the run before, when start() has created the next
\* task meanwhile
PreviousDeleteTask ==
  /\ previous_task
  /\ previous_task' = FALSE
  /\ UNCHANGED << comp, cfg, bits_per_sample_, state_, speaker_task_handle_,
                  task_created_, event_group_, status_warning, q15_volume_factor_,
                  audio_ring_buffer_, data_buffer_, lock, driver, mpc, tpc,
                  stop_gracefully, elapsed, block, scale, crashed, volume_,
                  decibel_index, mul_input, mul_c, mul_output, accepted, consumed,
                  passed, signalled, setup_failed, hard, empty_at, sink_unowned,
                  unlock_unowned, noop_start, idle_reads, dma_zeroed, spc,
                  speaker_event_queue_, speaker_command_queue_, mixer, opc,
                  media_control_command_queue_, pipeline_, pipeline_state_, retry,
                  start_pending, is_paused_, is_muted_, is_idle_muted_, state, dac_muted,
                  dac_failed, combine_cmd, ducking_ratio, ducking_released, pipe_phase,
                  pipe_events, pipe_stop, faults, calls >>

----------------------------------------------------------------------------
\* NabuMediaPlayer: setup(), the speaker task, watch_speaker_.  Events and
\* commands are modelled by their type.

\* xQueueSend(speaker_event_queue_, &event, portMAX_DELAY): blocks while full
SendEvent(type, next) ==
  /\ Len(speaker_event_queue_) < QueueCap
  /\ speaker_event_queue_' = Append(speaker_event_queue_, type)
  /\ signalled' = Append(signalled, type)
  /\ spc' = next

\* setup(), lines 174-179: the lock is taken, then the task is created
NabuSetup ==
  /\ comp = "nabu"
  /\ spc = "none"
  /\ IF lock = "free"
       THEN /\ lock' = "speaker"
            /\ speaker_task_handle_' = "task"
            /\ spc' = "send_starting"
       ELSE /\ spc' = "failed"
            /\ UNCHANGED << lock, speaker_task_handle_ >>
  /\ UNCHANGED << comp, cfg, bits_per_sample_, state_, task_created_, event_group_,
                  status_warning, q15_volume_factor_, audio_ring_buffer_, data_buffer_,
                  driver, mpc, tpc, stop_gracefully, elapsed, block, scale, crashed,
                  volume_, decibel_index, mul_input, mul_c, mul_output, accepted,
                  consumed, passed, signalled, setup_failed, hard, empty_at,
                  sink_unowned, unlock_unowned, noop_start, idle_reads, previous_task,
                  dma_zeroed, speaker_event_queue_, speaker_command_queue_, mixer, opc,
                  media_control_command_queue_, pipeline_, pipeline_state_, retry,
                  start_pending, is_paused_, is_muted_, is_idle_muted_, state, dac_muted,
                  dac_failed, combine_cmd, ducking_ratio, ducking_released, pipe_phase,
                  pipe_events, pipe_stop, faults, calls >>

\* the I2S bus is held by another component when setup() runs
NabuBusTaken ==
  /\ comp = "nabu"
  /\ spc = "none"
  /\ lock = "free"
  /\ lock' = "other"
  /\ UNCHANGED << comp, cfg, bits_per_sample_, state_, speaker_task_handle_,
                  task_created_, event_group_, status_warning, q15_volume_factor_,
                  audio_ring_buffer_, data_buffer_, driver, mpc, tpc, stop_gracefully,
                  elapsed, block, scale, crashed, volume_, decibel_index, mul_input,
                  mul_c, mul_output, accepted, consumed, passed, signalled, setup_failed,
                  hard, empty_at, sink_unowned, unlock_unowned, noop_start, idle_reads,
                  previous_task, dma_zeroed, spc, speaker_event_queue_,
                  speaker_command_queue_, mixer, opc, media_control_command_queue_,
                  pipeline_, pipeline_state_, retry, start_pending, is_paused_,
                  is_muted_, is_idle_muted_, state, dac_muted, dac_failed, combine_cmd,
                  ducking_ratio, ducking_released, pipe_phase, pipe_events, pipe_stop,
                  faults, calls >>

\* lines 192-193
NabuSendStarting ==
  /\ spc = "send_starting"
  /\ SendEvent("STARTING", "alloc")
  /\ UNCHANGED << comp, cfg, bits_per_sample_, state_, speaker_task_handle_,
                  task_created_, event_group_, status_warning, q15_volume_factor_,
                  audio_ring_buffer_, data_buffer_, lock, driver, mpc, tpc,
                  stop_gracefully, elapsed, block, scale, crashed, volume_,
                  decibel_index, mul_input, mul_c, mul_output, accepted, consumed,
                  passed, setup_failed, hard, empty_at, sink_unowned, unlock_unowned,
                  noop_start, idle_reads, previous_task, dma_zeroed,
                  speaker_command_queue_, mixer, opc, media_control_command_queue_,
                  pipeline_, pipeline_state_, retry, start_pending, is_paused_,
                  is_muted_, is_idle_muted_, state, dac_muted, dac_failed, combine_cmd,
                  ducking_ratio, ducking_released, pipe_phase, pipe_events, pipe_stop,
                  faults, calls >>

\* lines 195-198: the buffer allocation
NabuAllocate ==
  /\ spc = "alloc"
  /\ \E ok \in BOOLEAN :
       /\ Outcome(ok)
       /\ data_buffer_' = IF ok THEN "alloc" ELSE "null"
       /\ setup_failed' = ~ok
       /\ spc' = IF ok THEN "install" ELSE "fail_warning"
  /\ UNCHANGED << comp, cfg, bits_per_sample_, state_, speaker_task_handle_,
                  task_created_, event_group_, status_warning, q15_volume_factor_,
                  audio_ring_buffer_, lock, driver, mpc, tpc, stop_gracefully, elapsed,
                  block, scale, crashed, volume_, decibel_index, mul_input, mul_c,
                  mul_output, accepted, consumed, passed, signalled, hard, empty_at,
                  sink_unowned, unlock_unowned, noop_start, idle_reads, previous_task,
                  dma_zeroed, speaker_event_queue_, speaker_command_queue_, mixer, opc,
                  media_control_command_queue_, pipeline_, pipeline_state_, retry,
                  start_pending, is_paused_, is_muted_, is_idle_muted_, state, dac_muted,
                  dac_failed, combine_cmd, ducking_ratio, ducking_released, pipe_phase,
                  pipe_events, pipe_stop, calls >>

\* lines 238-239: i2s_driver_install
NabuInstall ==
  /\ spc = "install"
  /\ \E r \in InstallResults :
       /\ Outcome(r = "ESP_OK")
       /\ driver' = (r = "ESP_OK")
       /\ setup_failed' = (r # "ESP_OK")
       /\ spc' = IF r = "ESP_OK" THEN "set_pin" ELSE "fail_warning"
  /\ UNCHANGED << comp, cfg, bits_per_sample_, state_, speaker_task_handle_,
                  task_created_, event_group_, status_warning, q15_volume_factor_,
                  audio_ring_buffer_, data_buffer_, lock, mpc, tpc, stop_gracefully,
                  elapsed, block, scale, crashed, volume_, decibel_index, mul_input,
                  mul_c, mul_output, accepted, consumed, passed, signalled, hard,
                  empty_at, sink_unowned, unlock_unowned, noop_start, idle_reads,
                  previous_task, dma_zeroed, speaker_event_queue_,
                  speaker_command_queue_, mixer, opc, media_control_command_queue_,
                  pipeline_, pipeline_state_, retry, start_pending, is_paused_,
                  is_muted_, is_idle_muted_, state, dac_muted, dac_failed, combine_cmd,
                  ducking_ratio, ducking_released, pipe_phase, pipe_events, pipe_stop,
                  calls >>

\* lines 255-260: i2s_set_pin
NabuSetPin ==
  /\ spc = "set_pin"
  /\ \E r \in PinResults :
       /\ Outcome(r = "ESP_OK")
       /\ setup_failed' = (r # "ESP_OK")
       /\ spc' = IF r = "ESP_OK" THEN "send_started" ELSE "fail_warning"
  /\ UNCHANGED << comp, cfg, bits_per_sample_, state_, speaker_task_handle_,
                  task_created_, event_group_, status_warning, q15_volume_factor_,
                  audio_ring_buffer_, data_buffer_, lock, driver, mpc, tpc,
                  stop_gracefully, elapsed, block, scale, crashed, volume_,
                  decibel_index, mul_input, mul_c, mul_output, accepted, consumed,
                  passed, signalled, hard, empty_at, sink_unowned, unlock_unowned,
                  noop_start, idle_reads, previous_task, dma_zeroed,
                  speaker_event_queue_, speaker_command_queue_, mixer, opc,
                  media_control_command_queue_, pipeline_, pipeline_state_, retry,
                  start_pending, is_paused_, is_muted_, is_idle_muted_, state, dac_muted,
                  dac_failed, combine_cmd, ducking_ratio, ducking_released, pipe_phase,
                  pipe_events, pipe_stop, calls >>

\* lines 199-201, 240-242, 261-263: the WARNING of a failed setup
NabuFailWarning ==
  /\ spc = "fail_warning"
  /\ SendEvent("WARNING", "fail_stopped")
  /\ UNCHANGED << comp, cfg, bits_per_sample_, state_, speaker_task_handle_,
                  task_created_, event_group_, status_warning, q15_volume_factor_,
                  audio_ring_buffer_, data_buffer_, lock, driver, mpc, tpc,
                  stop_gracefully, elapsed, block, scale, crashed, volume_,
                  decibel_index, mul_input, mul_c, mul_output, accepted, consumed,
                  passed, setup_failed, hard, empty_at, sink_unowned, unlock_unowned,
                  noop_start, idle_reads, previous_task, dma_zeroed,
                  speaker_command_queue_, mixer, opc, media_control_command_queue_,
                  pipeline_, pipeline_state_, retry, start_pending, is_paused_,
                  is_muted_, is_idle_muted_, state, dac_muted, dac_failed, combine_cmd,
                  ducking_ratio, ducking_released, pipe_phase, pipe_events, pipe_stop,
                  faults, calls >>

\* lines 203-209, 244-250, 265-271: STOPPED after a failed setup, then delay forever
NabuFailStopped ==
  /\ spc = "fail_stopped"
  /\ SendEvent("STOPPED", "spin")
  /\ UNCHANGED << comp, cfg, bits_per_sample_, state_, speaker_task_handle_,
                  task_created_, event_group_, status_warning, q15_volume_factor_,
                  audio_ring_buffer_, data_buffer_, lock, driver, mpc, tpc,
                  stop_gracefully, elapsed, block, scale, crashed, volume_,
                  decibel_index, mul_input, mul_c, mul_output, accepted, consumed,
                  passed, setup_failed, hard, empty_at, sink_unowned, unlock_unowned,
                  noop_start, idle_reads, previous_task, dma_zeroed,
                  speaker_command_queue_, mixer, opc, media_control_command_queue_,
                  pipeline_, pipeline_state_, retry, start_pending, is_paused_,
                  is_muted_, is_idle_muted_, state, dac_muted, dac_failed, combine_cmd,
                  ducking_ratio, ducking_released, pipe_phase, pipe_events, pipe_stop,
                  faults, calls >>

\* lines 276-277
NabuSendStarted ==
  /\ spc = "send_started"
  /\ SendEvent("STARTED", "receive")
  /\ UNCHANGED << comp, cfg, bits_per_sample_, state_, speaker_task_handle_,
                  task_created_, event_group_, status_warning, q15_volume_factor_,
                  audio_ring_buffer_, data_buffer_, lock, driver, mpc, tpc,
                  stop_gracefully, elapsed, block, scale, crashed, volume_,
                  decibel_index, mul_input, mul_c, mul_output, accepted, consumed,
                  passed, setup_failed, hard, empty_at, sink_unowned, unlock_unowned,
                  noop_start, idle_reads, previous_task, dma_zeroed,
                  speaker_command_queue_, mixer, opc, media_control_command_queue_,
                  pipeline_, pipeline_state_, retry, start_pending, is_paused_,
                  is_muted_, is_idle_muted_, state, dac_muted, dac_failed, combine_cmd,
                  ducking_ratio, ducking_released, pipe_phase, pipe_events, pipe_stop,
                  faults, calls >>

\* lines 280-285: xQueueReceive from the command queue, at most 10 ms
NabuReceive ==
  /\ spc = "receive"
  /\ \/ speaker_command_queue_ # << >> /\ Head(speaker_command_queue_) = "STOP"
     \/ Len(signalled) + 2 < MaxEvents
  /\ IF speaker_command_queue_ # << >>
       THEN /\ speaker_command_queue_' = Tail(speaker_command_queue_)
            /\ IF Head(speaker_command_queue_) = "STOP"
                 THEN /\ spc' = "break"
                      /\ hard' = "seen"
                 ELSE /\ spc' = "read"
                      /\ UNCHANGED hard
       ELSE /\ spc' = "read"
            /\ UNCHANGED << speaker_command_queue_, hard >>
  /\ UNCHANGED << comp, cfg, bits_per_sample_, state_, speaker_task_handle_,
                  task_created_, event_group_, status_warning, q15_volume_factor_,
                  audio_ring_buffer_, data_buffer_, lock, driver, mpc, tpc,
                  stop_gracefully, elapsed, block, scale, crashed, volume_,
                  decibel_index, mul_input, mul_c, mul_output, accepted, consumed,
                  passed, signalled, setup_failed, empty_at, sink_unowned,
                  unlock_unowned, noop_start, idle_reads, previous_task, dma_zeroed,
                  speaker_event_queue_, mixer, opc, media_control_command_queue_,
                  pipeline_, pipeline_state_, retry, start_pending, is_paused_,
                  is_muted_, is_idle_muted_, state, dac_muted, dac_failed, combine_cmd,
                  ducking_ratio, ducking_released, pipe_phase, pipe_events, pipe_stop,
                  faults, calls >>

\* a task that reports STARTED after each write
WriteEvent_Started(all_written) ==
  "send_started"

\* lines 308-315: the event that follows a write
WriteEvent(all_written) ==
  IF all_written THEN "send_RUNNING" ELSE "send_WARNING"

\* lines 296-318: combine_streamer_->read, then the write or the silence
NabuReadWrite ==
  /\ spc = "read"
  /\ IF mixer > 0
       THEN /\ mixer' = mixer - 1
            /\ consumed' = consumed + 1
            /\ dma_zeroed' = FALSE
            /\ hard' = IF hard # "no" THEN "wrote" ELSE hard
            /\ \E all_written \in BOOLEAN :
                 /\ Outcome(all_written)
                 /\ spc' = WriteEvent(all_written)
       ELSE /\ spc' = "send_IDLE"
            /\ dma_zeroed' = UnderrunSink(dma_zeroed)
            /\ UNCHANGED << mixer, consumed, hard, faults >>
  /\ UNCHANGED << comp, cfg, bits_per_sample_, state_, speaker_task_handle_,
                  task_created_, event_group_, status_warning, q15_volume_factor_,
                  audio_ring_buffer_, data_buffer_, lock, driver, mpc, tpc,
                  stop_gracefully, elapsed, block, scale, crashed, volume_,
                  decibel_index, mul_input, mul_c, mul_output, accepted, passed,
                  signalled, setup_failed, empty_at, sink_unowned, unlock_unowned,
                  noop_start, idle_reads, previous_task, speaker_event_queue_,
                  speaker_command_queue_, opc, media_control_command_queue_, pipeline_,
                  pipeline_state_, retry, start_pending, is_paused_, is_muted_,
                  is_idle_muted_, state, dac_muted, dac_failed, combine_cmd,
                  ducking_ratio, ducking_released, pipe_phase, pipe_events, pipe_stop,
                  calls >>

\* lines 309-311, 313-314, 320-321: the event of this iteration
NabuSendIteration ==
  /\ spc \in {"send_RUNNING", "send_WARNING", "send_IDLE"}
  /\ SendEvent(CASE spc = "send_RUNNING" -> "RUNNING"
                 [] spc = "send_WARNING" -> "WARNING"
                 [] OTHER -> "IDLE", "receive")
  /\ UNCHANGED << comp, cfg, bits_per_sample_, state_, speaker_task_handle_,
                  task_created_, event_group_, status_warning, q15_volume_factor_,
                  audio_ring_buffer_, data_buffer_, lock, driver, mpc, tpc,
                  stop_gracefully, elapsed, block, scale, crashed, volume_,
                  decibel_index, mul_input, mul_c, mul_output, accepted, consumed,
                  passed, setup_failed, hard, empty_at, sink_unowned, unlock_unowned,
                  noop_start, idle_reads, previous_task, dma_zeroed,
                  speaker_command_queue_, mixer, opc, media_control_command_queue_,
                  pipeline_, pipeline_state_, retry, start_pending, is_paused_,
                  is_muted_, is_idle_muted_, state, dac_muted, dac_failed, combine_cmd,
                  ducking_ratio, ducking_released, pipe_phase, pipe_events, pipe_stop,
                  faults, calls >>

\* line 324: i2s_zero_dma_buffer after the loop
NabuBreakSilence ==
  /\ spc = "break"
  /\ hard' = HardStopSilence(hard)
  /\ dma_zeroed' = TRUE
  /\ spc' = "send_stopping"
  /\ UNCHANGED << comp, cfg, bits_per_sample_, state_, speaker_task_handle_,
                  task_created_, event_group_, status_warning, q15_volume_factor_,
                  audio_ring_buffer_, data_buffer_, lock, driver, mpc, tpc,
                  stop_gracefully, elapsed, block, scale, crashed, volume_,
                  decibel_index, mul_input, mul_c, mul_output, accepted, consumed,
                  passed, signalled, setup_failed, empty_at, sink_unowned,
                  unlock_unowned, noop_start, idle_reads, previous_task,
                  speaker_event_queue_, speaker_command_queue_, mixer, opc,
                  media_control_command_queue_, pipeline_, pipeline_state_, retry,
                  start_pending, is_paused_, is_muted_, is_idle_muted_, state, dac_muted,
                  dac_failed, combine_cmd, ducking_ratio, ducking_released, pipe_phase,
                  pipe_events, pipe_stop, faults, calls >>

\* lines 325-326
NabuSendStopping ==
  /\ spc = "send_stopping"
  /\ SendEvent("STOPPING", "teardown")
  /\ UNCHANGED << comp, cfg, bits_per_sample_, state_, speaker_task_handle_,
                  task_created_, event_group_, status_warning, q15_volume_factor_,
                  audio_ring_buffer_, data_buffer_, lock, driver, mpc, tpc,
                  stop_gracefully, elapsed, block, scale, crashed, volume_,
                  decibel_index, mul_input, mul_c, mul_output, accepted, consumed,
                  passed, setup_failed, hard, empty_at, sink_unowned, unlock_unowned,
                  noop_start, idle_reads, previous_task, dma_zeroed,
                  speaker_command_queue_, mixer, opc, media_control_command_queue_,
                  pipeline_, pipeline_state_, retry, start_pending, is_paused_,
                  is_muted_, is_idle_muted_, state, dac_muted, dac_failed, combine_cmd,
                  ducking_ratio, ducking_released, pipe_phase, pipe_events, pipe_stop,
                  faults, calls >>

\* lines 328-330
NabuTeardown ==
  /\ spc = "teardown"
  /\ data_buffer_' = "freed"
  /\ driver' = FALSE
  /\ spc' = "send_stopped"
  /\ UNCHANGED << comp, cfg, bits_per_sample_, state_, speaker_task_handle_,
                  task_created_, event_group_, status_warning, q15_volume_factor_,
                  audio_ring_buffer_, lock, mpc, tpc, stop_gracefully, elapsed, block,
                  scale, crashed, volume_, decibel_index, mul_input, mul_c, mul_output,
                  accepted, consumed, passed, signalled, setup_failed, hard, empty_at,
                  sink_unowned, unlock_unowned, noop_start, idle_reads, previous_task,
                  dma_zeroed, speaker_event_queue_, speaker_command_queue_, mixer, opc,
                  media_control_command_queue_, pipeline_, pipeline_state_, retry,
                  start_pending, is_paused_, is_muted_, is_idle_muted_, state, dac_muted,
                  dac_failed, combine_cmd, ducking_ratio, ducking_released, pipe_phase,
                  pipe_events, pipe_stop, faults, calls >>

\* lines 332-337: STOPPED, then delay forever
NabuSendStopped ==
  /\ spc = "send_stopped"
  /\ SendEvent("STOPPED", "spin")
  /\ UNCHANGED << comp, cfg, bits_per_sample_, state_, speaker_task_handle_,
                  task_created_, event_group_, status_warning, q15_volume_factor_,
                  audio_ring_buffer_, data_buffer_, lock, driver, mpc, tpc,
                  stop_gracefully, elapsed, block, scale, crashed, volume_,
                  decibel_index, mul_input, mul_c, mul_output, accepted, consumed,
                  passed, setup_failed, hard, empty_at, sink_unowned, unlock_unowned,
                  noop_start, idle_reads, previous_task, dma_zeroed,
                  speaker_command_queue_, mixer, opc, media_control_command_queue_,
                  pipeline_, pipeline_state_, retry, start_pending, is_paused_,
                  is_muted_, is_idle_muted_, state, dac_muted, dac_failed, combine_cmd,
                  ducking_ratio, ducking_released, pipe_phase, pipe_events, pipe_stop,
                  faults, calls >>

\* watch_speaker_, lines 464-494: one xQueueReceive and its case
WatchSpeaker ==
  /\ comp = "nabu"
  /\ speaker_event_queue_ # << >>
  /\ LET event == Head(speaker_event_queue_)
     IN  /\ status_warning' = (status_warning \/ event = "WARNING")
         /\ IF event = "STOPPED"
              THEN /\ spc' = "deleted"
                   /\ speaker_task_handle_' = "null"
                   /\ lock' = "free"
                   /\ speaker_event_queue_' = << >>
                   /\ speaker_command_queue_' = << >>
              ELSE /\ speaker_event_queue_' = Tail(speaker_event_queue_)
                   /\ UNCHANGED << spc, speaker_task_handle_, lock, speaker_command_queue_ >>
  /\ UNCHANGED << comp, cfg, bits_per_sample_, state_, task_created_, event_group_,
                  q15_volume_factor_, audio_ring_buffer_, data_buffer_, driver, mpc, tpc,
                  stop_gracefully, elapsed, block, scale, crashed, volume_,
                  decibel_index, mul_input, mul_c, mul_output, accepted, consumed,
                  passed, signalled, setup_failed, hard, empty_at, sink_unowned,
                  unlock_unowned, noop_start, idle_reads, previous_task, dma_zeroed,
                  mixer, opc, media_control_command_queue_, pipeline_, pipeline_state_,
                  retry, start_pending, is_paused_, is_muted_, is_idle_muted_, state,
                  dac_muted, dac_failed, combine_cmd, ducking_ratio, ducking_released,
                  pipe_phase, pipe_events, pipe_stop, faults, calls >>

\* a command is put on speaker_command_queue_ (its sender is not in this file)
SendSpeakerCommand ==
  /\ comp = "nabu"
  /\ spc \notin {"none", "failed"}
  /\ Len(speaker_command_queue_) < QueueCap
  /\ \E c \in {"STOP", "OTHER"} :
       speaker_command_queue_' = Append(speaker_command_queue_, c)
  /\ UNCHANGED << comp, cfg, bits_per_sample_, state_, speaker_task_handle_,
                  task_created_, event_group_, status_warning, q15_volume_factor_,
                  audio_ring_buffer_, data_buffer_, lock, driver, mpc, tpc,
                  stop_gracefully, elapsed, block, scale, crashed, volume_,
                  decibel_index, mul_input, mul_c, mul_output, accepted, consumed,
                  passed, signalled, setup_failed, hard, empty_at, sink_unowned,
                  unlock_unowned, noop_start, idle_reads, previous_task, dma_zeroed, spc,
                  speaker_event_queue_, mixer, opc, media_control_command_queue_,
                  pipeline_, pipeline_state_, retry, start_pending, is_paused_,
                  is_muted_, is_idle_muted_, state, dac_muted, dac_failed, combine_cmd,
                  ducking_ratio, ducking_released, pipe_phase, pipe_events, pipe_stop,
                  faults, calls >>

\* the combine streamer gets a block of mixed audio ready
MixerProduce ==
  /\ comp = "nabu"
  /\ spc \notin {"none", "failed"}
  /\ mixer < MixCap
  /\ mixer' = mixer + 1
  /\ UNCHANGED << comp, cfg, bits_per_sample_, state_, speaker_task_handle_,
                  task_created_, event_group_, status_warning, q15_volume_factor_,
                  audio_ring_buffer_, data_buffer_, lock, driver, mpc, tpc,
                  stop_gracefully, elapsed, block, scale, crashed, volume_,
                  decibel_index, mul_input, mul_c, mul_output, accepted, consumed,
                  passed, signalled, setup_failed, hard, empty_at, sink_unowned,
                  unlock_unowned, noop_start, idle_reads, previous_task, dma_zeroed, spc,
                  speaker_event_queue_, speaker_command_queue_, opc,
                  media_control_command_queue_, pipeline_, pipeline_state_, retry,
                  start_pending, is_paused_, is_muted_, is_idle_muted_, state, dac_muted,
                  dac_failed, combine_cmd, ducking_ratio, ducking_released, pipe_phase,
                  pipe_events, pipe_stop, faults, calls >>

----------------------------------------------------------------------------
\* NabuMediaPlayer: the main loop.  setup() has run: state is IDLE and the
\* queues exist.  watch_speaker_ (line 581) works on the speaker task's handle,
\* lock and queues only and is the action WatchSpeaker above.

\* the commands a MediaCallCommand may carry that the switch at line 401 names
\* (VOLUME_DOWN is handled as VOLUME_UP is)
TransportCommands ==
  {"PLAY", "PAUSE", "STOP", "TOGGLE", "MUTE", "UNMUTE", "VOLUME_UP"}

\* control(), lines 631-662: the MediaCallCommand it queues for a call.  A field
\* is TRUE when the optional has a value (announce: has a value and it is true).
MediaCallCommand(url, announcement, volume, command) ==
  IF url
    THEN [new_url |-> TRUE, announce |-> announcement, volume |-> FALSE,
          command |-> "none"]
    ELSE IF volume
      THEN [new_url |-> FALSE, announce |-> FALSE, volume |-> TRUE,
            command |-> "none"]
      ELSE [new_url |-> FALSE, announce |-> announcement, volume |-> FALSE,
            command |-> command]

\* control(), lines 645, 651, 660: xQueueSend with portMAX_DELAY returns when
\* there is room; on a full queue it waits for room without a time limit, and
\* the only receiver, loop(), runs on the thread that waits
QueueSend(queue, item) ==
  IF Len(queue) < CmdQueueCap
    THEN [queue |-> Append(queue, item), pc |-> "idle"]
    ELSE [queue |-> queue, pc |-> "send_blocked"]

\* a call of control() that carries a url, a volume or a command
Control ==
  /\ comp = "player"
  /\ opc = "idle"
  /\ calls < MaxControls
  /\ calls' = calls + 1
  /\ \E url, announcement, volume \in BOOLEAN :
       \E command \in TransportCommands \cup {"none"} :
         /\ (IF url THEN ~volume /\ command = "none"
                    ELSE IF volume THEN command = "none" /\ ~announcement
                                   ELSE command # "none")
         /\ LET sent == QueueSend(media_control_command_queue_,
                                  MediaCallCommand(url, announcement, volume, command))
            IN  /\ media_control_command_queue_' = sent.queue
                /\ opc' = sent.pc
  /\ UNCHANGED << comp, cfg, bits_per_sample_, state_, speaker_task_handle_,
                  task_created_, event_group_, status_warning, q15_volume_factor_,
                  audio_ring_buffer_, data_buffer_, lock, driver, mpc, tpc,
                  stop_gracefully, elapsed, block, scale, crashed, volume_,
                  decibel_index, mul_input, mul_c, mul_output, accepted, consumed,
                  passed, signalled, setup_failed, hard, empty_at, sink_unowned,
                  unlock_unowned, noop_start, idle_reads, previous_task, dma_zeroed, spc,
                  speaker_event_queue_, speaker_command_queue_, mixer, pipeline_,
                  pipeline_state_, retry, start_pending, is_paused_, is_muted_,
                  is_idle_muted_, state, dac_muted, dac_failed, combine_cmd,
                  ducking_ratio, ducking_released, pipe_phase, pipe_events, pipe_stop,
                  faults >>

\* the ratios set_ducking_ratio is called with, in hundredths
DuckingRatios == {20, 100}

\* set_ducking_ratio(ducking_ratio), lines 621-628: combine_streamer_ is not
\* nullptr after setup (line 171), and the mixer updates its ratio on DUCK
SetDuckingRatio ==
  /\ comp = "player"
  /\ opc = "idle"
  /\ calls < MaxControls
  /\ calls' = calls + 1
  /\ \E r \in DuckingRatios : ducking_ratio' = r
  /\ UNCHANGED << comp, cfg, bits_per_sample_, state_, speaker_task_handle_,
                  task_created_, event_group_, status_warning, q15_volume_factor_,
                  audio_ring_buffer_, data_buffer_, lock, driver, mpc, tpc,
                  stop_gracefully, elapsed, block, scale, crashed, volume_,
                  decibel_index, mul_input, mul_c, mul_output, accepted, consumed,
                  passed, signalled, setup_failed, hard, empty_at, sink_unowned,
                  unlock_unowned, noop_start, idle_reads, previous_task, dma_zeroed, spc,
                  speaker_event_queue_, speaker_command_queue_, mixer, opc,
                  media_control_command_queue_, pipeline_, pipeline_state_, retry,
                  start_pending, is_paused_, is_muted_, is_idle_muted_, state, dac_muted,
                  dac_failed, combine_cmd, ducking_released, pipe_phase, pipe_events,
                  pipe_stop, faults >>

\* the pipeline a command is for
Target(announce) ==
  IF announce THEN "announcement" ELSE "media"

\* the fields watch_media_commands_ works on
PlayerState ==
  [pipeline_ |-> pipeline_, pipe_stop |-> pipe_stop, retry |-> retry,
   start_pending |-> start_pending,
   is_paused_ |-> is_paused_, is_muted_ |-> is_muted_, dac_muted |-> dac_muted,
   combine_cmd |-> combine_cmd, null_deref |-> FALSE]

\* mute_() and unmute_(), lines 710-737: the mute registers after the call; ok:
\* the writes to the DAC succeeded
DacWrite(muted, target, ok) ==
  IF ok THEN target ELSE muted

\* watch_media_commands_, lines 345-391: a new url
NewUrl(S, c) ==
  IF ~c.new_url
    THEN S
    ELSE LET p == Target(c.announce)
         IN  [S EXCEPT !.pipeline_[p] = TRUE,
                       !.pipe_stop[p] = (pipeline_state_[p] # "STOPPED") \/ @,
                       !.start_pending[p] = (pipeline_state_[p] # "STOPPED") \/ @,
                       !.retry[p] = RetryAttempts]

\* watch_media_commands_, lines 393-398: a volume
NewVolume(S, c, ok) ==
  IF ~c.volume
    THEN S
    ELSE [S EXCEPT !.dac_muted = DacWrite(@, FALSE, ok), !.is_muted_ = FALSE]

\* watch_media_commands_, lines 400-458: the switch on the command
NewCommand(S, c, ok) ==
  CASE c.command = "PLAY" ->
         [S EXCEPT !.combine_cmd = IF S.is_paused_ THEN "RESUME_MEDIA" ELSE @,
                   !.is_paused_ = FALSE]
    [] c.command = "PAUSE" ->
         [S EXCEPT !.combine_cmd =
                     IF pipeline_state_["media"] = "PLAYING" THEN "PAUSE_MEDIA" ELSE @,
                   !.is_paused_ = TRUE]
    [] c.command = "STOP" ->
         IF ~S.pipeline_[Target(c.announce)]
           THEN [S EXCEPT !.null_deref = TRUE]
           ELSE [S EXCEPT !.pipe_stop[Target(c.announce)] = TRUE,
                          !.is_paused_ = IF c.announce THEN @ ELSE FALSE]
    [] c.command = "TOGGLE" ->
         [S EXCEPT !.combine_cmd =
                     IF S.is_paused_ THEN "RESUME_MEDIA" ELSE "PAUSE_MEDIA",
                   !.is_paused_ = ~@]
    [] c.command = "MUTE" ->
         [S EXCEPT !.dac_muted = DacWrite(@, TRUE, ok), !.is_muted_ = TRUE]
    [] c.command = "UNMUTE" ->
         [S EXCEPT !.dac_muted = DacWrite(@, FALSE, ok), !.is_muted_ = FALSE]
    [] OTHER -> S

\* the command makes watch_media_commands_ write to the DAC's mute registers
WritesDac(c) ==
  c.volume \/ c.command \in {"MUTE", "UNMUTE"}

Receive_KeepLast(queue) ==
  [item |-> queue[Len(queue)], rest |-> << >>]

\* watch_media_commands_, line 344: xQueueReceive, called once, on a queue that
\* is not empty: the command it takes and the commands it leaves
Receive(queue) ==
  [item |-> Head(queue), rest |-> Tail(queue)]

\* loop(), line 579: watch_media_commands_, lines 340-460
WatchMediaCommands ==
  /\ comp = "player"
  /\ opc = "idle"
  /\ IF media_control_command_queue_ = << >>
       THEN /\ opc' = "watch_announcement"
            /\ UNCHANGED << media_control_command_queue_, pipeline_, pipe_stop, retry,
                            start_pending,
                            is_paused_, is_muted_, dac_muted, dac_failed, combine_cmd,
                            faults >>
       ELSE \E ok \in BOOLEAN :
              LET c == Receive(media_control_command_queue_).item
                  S == NewCommand(NewVolume(NewUrl(PlayerState, c), c, ok), c, ok)
              IN  /\ media_control_command_queue_' =
                       Receive(media_control_command_queue_).rest
                  /\ ok \/ WritesDac(c)
                  /\ Outcome(ok)
                  /\ pipeline_' = S.pipeline_
                  /\ pipe_stop' = S.pipe_stop
                  /\ start_pending' = S.start_pending
                  /\ retry' = S.retry
                  /\ is_paused_' = S.is_paused_
                  /\ is_muted_' = S.is_muted_
                  /\ dac_muted' = S.dac_muted
                  /\ dac_failed' = (dac_failed \/ ~ok)
                  /\ combine_cmd' = S.combine_cmd
                  /\ opc' = IF S.null_deref THEN "halt" ELSE "watch_announcement"
  /\ UNCHANGED << comp, cfg, bits_per_sample_, state_, speaker_task_handle_,
                  task_created_, event_group_, status_warning, q15_volume_factor_,
                  audio_ring_buffer_, data_buffer_, lock, driver, mpc, tpc,
                  stop_gracefully, elapsed, block, scale, crashed, volume_,
                  decibel_index, mul_input, mul_c, mul_output, accepted, consumed,
                  passed, signalled, setup_failed, hard, empty_at, sink_unowned,
                  unlock_unowned, noop_start, idle_reads, previous_task, dma_zeroed, spc,
                  speaker_event_queue_, speaker_command_queue_, mixer, pipeline_state_,
                  is_idle_muted_, state, ducking_ratio, ducking_released, pipe_phase,
                  pipe_events, calls >>

\* Pipeline::start (spec 4.5): valid only from STOPPED, where it begins a run;
\* a start of a pipeline that is not stopped is an invalid transition and
\* changes nothing
PipelineStart(phase) ==
  IF phase = "off" THEN "starting" ELSE phase

\* the retry "ann_start" / "media_start" calls its function, lines 357-364 and
\* 376-389: RETRY while the tracked state is not STOPPED (until no call is
\* left), else start() and DONE
RetryStart ==
  /\ comp = "player"
  /\ opc = "idle"
  /\ \E p \in Pipelines :
       /\ retry[p] > 0
       /\ IF pipeline_state_[p] # "STOPPED"
            THEN /\ retry' = [retry EXCEPT ![p] = @ - 1]
                 /\ UNCHANGED << pipe_phase, pipe_stop, start_pending, is_paused_,
                                 combine_cmd >>
            ELSE /\ retry' = [retry EXCEPT ![p] = 0]
                 /\ pipe_phase' = [pipe_phase EXCEPT ![p] = PipelineStart(@)]
                 /\ pipe_stop' = [pipe_stop EXCEPT ![p] = (pipe_phase[p] # "off") /\ @]
                 /\ start_pending' = [start_pending EXCEPT ![p] = FALSE]
                 /\ IF p = "media"
                      THEN /\ combine_cmd' =
                                IF is_paused_ THEN "RESUME_MEDIA" ELSE combine_cmd
                           /\ is_paused_' = FALSE
                      ELSE UNCHANGED << is_paused_, combine_cmd >>
  /\ UNCHANGED << comp, cfg, bits_per_sample_, state_, speaker_task_handle_,
                  task_created_, event_group_, status_warning, q15_volume_factor_,
                  audio_ring_buffer_, data_buffer_, lock, driver, mpc, tpc,
                  stop_gracefully, elapsed, block, scale, crashed, volume_,
                  decibel_index, mul_input, mul_c, mul_output, accepted, consumed,
                  passed, signalled, setup_failed, hard, empty_at, sink_unowned,
                  unlock_unowned, noop_start, idle_reads, previous_task, dma_zeroed, spc,
                  speaker_event_queue_, speaker_command_queue_, mixer, opc,
                  media_control_command_queue_, pipeline_, pipeline_state_, is_muted_,
                  is_idle_muted_, state, dac_muted, dac_failed, ducking_ratio,
                  ducking_released, pipe_events, faults, calls >>

\* watch_(), the switch at lines 503-533 and 540-569: the tracked state after
\* an event
TrackedState_IdleStops(st, event) ==
  CASE event = "STARTING" -> "STARTING"
    [] event = "STARTED" -> "STARTED"
    [] event = "IDLE" -> "STOPPED"
    [] event = "RUNNING" -> "PLAYING"
    [] event = "STOPPING" -> "STOPPING"
    [] event = "STOPPED" -> "STOPPED"
    [] OTHER -> st

TrackedState(st, event) ==
  CASE event = "STARTING" -> "STARTING"
    [] event = "STARTED" -> "STARTED"
    [] event = "IDLE" -> "PLAYING"
    [] event = "RUNNING" -> "PLAYING"
    [] event = "STOPPING" -> "STOPPING"
    [] event = "STOPPED" -> "STOPPED"
    [] OTHER -> st

\* watch_(), lines 524 and 561: stop() is called on the pipeline when its
\* STOPPED event is read; Pipeline::stop tears the run down
StopOnStopped(phase, event) ==
  IF event = "STOPPED" THEN "off" ELSE phase

\* watch_(): one pass of the loop over the events of pipeline p (lines 501-535
\* and 537-571); next: where the main thread goes when no event is left
ReadEvent(p, next) ==
  IF pipeline_[p] /\ pipe_events[p] # << >>
    THEN LET event == Head(pipe_events[p])
         IN  /\ pipe_events' = [pipe_events EXCEPT ![p] = Tail(@)]
             /\ pipe_phase' = [pipe_phase EXCEPT ![p] = StopOnStopped(@, event)]
             /\ pipeline_state_' =
                  [pipeline_state_ EXCEPT ![p] = TrackedState(@, event)]
             /\ status_warning' =
                  CASE event = "WARNING" -> TRUE
                    [] event = "RUNNING" -> FALSE
                    [] OTHER -> status_warning
             /\ UNCHANGED opc
    ELSE /\ opc' = next
         /\ UNCHANGED << pipe_events, pipe_phase, pipeline_state_, status_warning >>

\* loop(), line 580: watch_(), the announcement pipeline
WatchAnnouncement ==
  /\ opc = "watch_announcement"
  /\ ReadEvent("announcement", "watch_media")
  /\ UNCHANGED << comp, cfg, bits_per_sample_, state_, speaker_task_handle_,
                  task_created_, event_group_, q15_volume_factor_, audio_ring_buffer_,
                  data_buffer_, lock, driver, mpc, tpc, stop_gracefully, elapsed, block,
                  scale, crashed, volume_, decibel_index, mul_input, mul_c, mul_output,
                  accepted, consumed, passed, signalled, setup_failed, hard, empty_at,
                  sink_unowned, unlock_unowned, noop_start, idle_reads, previous_task,
                  dma_zeroed, spc, speaker_event_queue_, speaker_command_queue_, mixer,
                  media_control_command_queue_, pipeline_, retry, start_pending,
                  is_paused_, is_muted_, is_idle_muted_, state, dac_muted, dac_failed,
                  combine_cmd, ducking_ratio, ducking_released, pipe_stop, faults, calls >>

\* loop(), line 580: watch_(), the media pipeline
WatchMedia ==
  /\ opc = "watch_media"
  /\ ReadEvent("media", "derive")
  /\ UNCHANGED << comp, cfg, bits_per_sample_, state_, speaker_task_handle_,
                  task_created_, event_group_, q15_volume_factor_, audio_ring_buffer_,
                  data_buffer_, lock, driver, mpc, tpc, stop_gracefully, elapsed, block,
                  scale, crashed, volume_, decibel_index, mul_input, mul_c, mul_output,
                  accepted, consumed, passed, signalled, setup_failed, hard, empty_at,
                  sink_unowned, unlock_unowned, noop_start, idle_reads, previous_task,
                  dma_zeroed, spc, speaker_event_queue_, speaker_command_queue_, mixer,
                  media_control_command_queue_, pipeline_, retry, start_pending,
                  is_paused_, is_muted_, is_idle_muted_, state, dac_muted, dac_failed,
                  combine_cmd, ducking_ratio, ducking_released, pipe_stop, faults, calls >>

PublishedState_PausedFirst(announcement, paused, media) ==
  IF paused
    THEN "PAUSED"
    ELSE IF announcement \notin {"STOPPING", "STOPPED"}
      THEN "ANNOUNCING"
      ELSE IF media \in {"STOPPING", "STOPPED"} THEN "IDLE" ELSE "PLAYING"

\* loop(), lines 586-613: the state it publishes
PublishedState(announcement, paused, media) ==
  IF announcement # "STOPPING" /\ announcement # "STOPPED"
    THEN "ANNOUNCING"
    ELSE IF paused
      THEN "PAUSED"
      ELSE IF media = "STOPPING" \/ media = "STOPPED" THEN "IDLE" ELSE "PLAYING"

\* a loop() that lifts the idle mute whether the player is muted or not
LoopUnmutes_IgnoreMute(idle_muted, muted) ==
  idle_muted

\* loop(), lines 589 and 609: the test before unmute_()
LoopUnmutes(idle_muted, muted) ==
  idle_muted /\ ~muted

\* loop(), lines 584-618: the state and the muting
Derive ==
  /\ opc = "derive"
  /\ opc' = "idle"
  /\ state' = PublishedState(pipeline_state_["announcement"], is_paused_,
                             pipeline_state_["media"])
  /\ IF state' \in {"ANNOUNCING", "PLAYING"}
       THEN IF LoopUnmutes(is_idle_muted_, is_muted_)
              THEN \E ok \in BOOLEAN :
                     /\ Outcome(ok)
                     /\ dac_muted' = DacWrite(dac_muted, FALSE, ok)
                     /\ dac_failed' = (dac_failed \/ ~ok)
                     /\ is_idle_muted_' = FALSE
              ELSE UNCHANGED << dac_muted, dac_failed, is_idle_muted_, faults >>
       ELSE IF ~is_idle_muted_
              THEN \E ok \in BOOLEAN :
                     /\ Outcome(ok)
                     /\ dac_muted' = DacWrite(dac_muted, TRUE, ok)
                     /\ dac_failed' = (dac_failed \/ ~ok)
                     /\ is_idle_muted_' = TRUE
              ELSE UNCHANGED << dac_muted, dac_failed, is_idle_muted_, faults >>
  /\ UNCHANGED << comp, cfg, bits_per_sample_, state_, speaker_task_handle_,
                  task_created_, event_group_, status_warning, q15_volume_factor_,
                  audio_ring_buffer_, data_buffer_, lock, driver, mpc, tpc,
                  stop_gracefully, elapsed, block, scale, crashed, volume_,
                  decibel_index, mul_input, mul_c, mul_output, accepted, consumed,
                  passed, signalled, setup_failed, hard, empty_at, sink_unowned,
                  unlock_unowned, noop_start, idle_reads, previous_task, dma_zeroed, spc,
                  speaker_event_queue_, speaker_command_queue_, mixer,
                  media_control_command_queue_, pipeline_, pipeline_state_, retry,
                  start_pending, is_paused_, is_muted_, combine_cmd, ducking_ratio,
                  ducking_released, pipe_phase, pipe_events, pipe_stop, calls >>

\* a mixer that keeps its ducking ratio when the foreground source stops
DuckingAfter_Keep(p, phase, ratio) ==
  ratio

\* the mixer's ducking ratio once source p has moved to phase (spec 4.4): the
\* ducking is released, the ratio restored to 1.0, once the foreground
\* (announcement) source is stopped
DuckingAfter(p, phase, ratio) ==
  IF p = "announcement" /\ phase \in {"ended", "ended_early"} THEN 100 ELSE ratio

\* a pipeline puts a status event on its queue, if there is room
Emit(p, event, phase) ==
  /\ Len(pipe_events[p]) < PipeEventCap
  /\ pipe_events' = [pipe_events EXCEPT ![p] = Append(@, event)]
  /\ pipe_phase' = [pipe_phase EXCEPT ![p] = phase]
  /\ ducking_ratio' = DuckingAfter(p, phase, ducking_ratio)
  /\ ducking_released' = (ducking_released \/ ducking_ratio' > ducking_ratio)

\* a pipeline's run goes on (spec 3, StatusEvent): STARTING, STARTED, then
\* RUNNING or IDLE any number of times, and STOPPED after STOPPING
PipelineRun ==
  /\ comp = "player"
  /\ \E p \in Pipelines :
       CASE pipe_phase[p] = "starting" -> Emit(p, "STARTING", "started")
         [] pipe_phase[p] = "started" -> Emit(p, "STARTED", "running")
         [] pipe_phase[p] = "running" ->
              \E event \in {"RUNNING", "IDLE"} : Emit(p, event, "running")
         [] pipe_phase[p] = "stopping" -> Emit(p, "STOPPED", "ended")
         [] pipe_phase[p] = "stopping_early" -> Emit(p, "STOPPED", "ended_early")
         [] OTHER -> FALSE
  /\ UNCHANGED << comp, cfg, bits_per_sample_, state_, speaker_task_handle_,
                  task_created_, event_group_, status_warning, q15_volume_factor_,
                  audio_ring_buffer_, data_buffer_, lock, driver, mpc, tpc,
                  stop_gracefully, elapsed, block, scale, crashed, volume_,
                  decibel_index, mul_input, mul_c, mul_output, accepted, consumed,
                  passed, signalled, setup_failed, hard, empty_at, sink_unowned,
                  unlock_unowned, noop_start, idle_reads, previous_task, dma_zeroed, spc,
                  speaker_event_queue_, speaker_command_queue_, mixer, opc,
                  media_control_command_queue_, pipeline_, pipeline_state_, retry,
                  start_pending, is_paused_, is_muted_, is_idle_muted_, state, dac_muted,
                  dac_failed, combine_cmd, pipe_stop, faults, calls >>

\* a pipeline begins its teardown (spec 4.5): on a STOP command, at the end of
\* its source or on a failure; "early" when it has not reported STARTED
PipelineStopping ==
  /\ comp = "player"
  /\ \E p \in Pipelines :
       /\ pipe_phase[p] \in {"started", "running"}
       /\ Emit(p, "STOPPING",
               IF pipe_phase[p] = "started" THEN "stopping_early" ELSE "stopping")
       /\ pipe_stop' = [pipe_stop EXCEPT ![p] = FALSE]
  /\ UNCHANGED << comp, cfg, bits_per_sample_, state_, speaker_task_handle_,
                  task_created_, event_group_, status_warning, q15_volume_factor_,
                  audio_ring_buffer_, data_buffer_, lock, driver, mpc, tpc,
                  stop_gracefully, elapsed, block, scale, crashed, volume_,
                  decibel_index, mul_input, mul_c, mul_output, accepted, consumed,
                  passed, signalled, setup_failed, hard, empty_at, sink_unowned,
                  unlock_unowned, noop_start, idle_reads, previous_task, dma_zeroed, spc,
                  speaker_event_queue_, speaker_command_queue_, mixer, opc,
                  media_control_command_queue_, pipeline_, pipeline_state_, retry,
                  start_pending, is_paused_, is_muted_, is_idle_muted_, state, dac_muted,
                  dac_failed, combine_cmd, faults, calls >>

\* a pipeline reports a warning while it runs
PipelineWarning ==
  /\ comp = "player"
  /\ \E p \in Pipelines :
       /\ pipe_phase[p] = "running"
       /\ Outcome(FALSE)
       /\ Emit(p, "WARNING", "running")
  /\ UNCHANGED << comp, cfg, bits_per_sample_, state_, speaker_task_handle_,
                  task_created_, event_group_, status_warning, q15_volume_factor_,
                  audio_ring_buffer_, data_buffer_, lock, driver, mpc, tpc,
                  stop_gracefully, elapsed, block, scale, crashed, volume_,
                  decibel_index, mul_input, mul_c, mul_output, accepted, consumed,
                  passed, signalled, setup_failed, hard, empty_at, sink_unowned,
                  unlock_unowned, noop_start, idle_reads, previous_task, dma_zeroed, spc,
                  speaker_event_queue_, speaker_command_queue_, mixer, opc,
                  media_control_command_queue_, pipeline_, pipeline_state_, retry,
                  start_pending, is_paused_, is_muted_, is_idle_muted_, state, dac_muted,
                  dac_failed, combine_cmd, pipe_stop, calls >>

----------------------------------------------------------------------------
\* one step of the I2SAudioSpeaker task
TaskStep ==
  \/ TaskWaitCommand \/ TaskSetStarting \/ TaskAllocate \/ TaskStartDriver
  \/ TaskStreamInfo \/ TaskSetRunning \/ TaskLoopTop
  \/ TaskZeroStop \/ TaskRead \/ TaskWrite
  \/ TaskSetStopping \/ TaskTeardown
  \/ DeleteWait \/ DeleteReset \/ DeleteSetStopped \/ DeleteFlag \/ DeleteTask
  \/ PreviousDeleteTask

\* the main thread goes on inside start() or play()
MainStep ==
  \/ StartFlag \/ PlayWait \/ PlayWrite

\* a call from the main thread
MainCall ==
  \/ Start \/ Stop(FALSE) \/ Stop(TRUE) \/ SetVolume \/ PlayCall

\* one step of the player's loop() after watch_media_commands_
PlayerStep ==
  \/ WatchAnnouncement \/ WatchMedia \/ Derive

\* one step of a pipeline
PipelineStep ==
  \/ PipelineRun \/ PipelineStopping \/ PipelineWarning

\* one step of the nabu speaker task
NabuTaskStep ==
  \/ NabuSendStarting \/ NabuAllocate \/ NabuInstall \/ NabuSetPin
  \/ NabuFailWarning \/ NabuFailStopped \/ NabuSendStarted \/ NabuReceive
  \/ NabuReadWrite \/ NabuSendIteration \/ NabuBreakSilence \/ NabuSendStopping
  \/ NabuTeardown \/ NabuSendStopped

Next ==
  \/ TaskStep
  \/ MainStep
  \/ MainCall
  \/ loop
  \/ OtherLock
  \/ NabuSetup \/ NabuBusTaken
  \/ NabuTaskStep
  \/ WatchSpeaker \/ SendSpeakerCommand \/ MixerProduce

Spec ==
  Init /\ [][Next]_vars

\* the scheduling the code relies on: FreeRTOS runs a task that is ready, and
\* the main loop goes on and calls loop() again and again
Fairness ==
  /\ WF_vars(TaskStep)
  /\ WF_vars(MainStep)
  /\ WF_vars(loop)

FairSpec ==
  Spec /\ Fairness

\* NabuMediaPlayer's main loop with its two pipelines
PlayerInit ==
  /\ comp = "player"
  /\ cfg = CHOOSE c \in Configs : c.master /\ c.channels = 1
  /\ bits_per_sample_ = cfg.sink_bits
  /\ state_ = "STOPPED"
  /\ speaker_task_handle_ = "null"
  /\ task_created_ = FALSE
  /\ event_group_ = {}
  /\ status_warning = FALSE
  /\ q15_volume_factor_ = INT16_MAX
  /\ audio_ring_buffer_ = NullBuffer
  /\ data_buffer_ = "null"
  /\ lock = "free"
  /\ driver = FALSE
  /\ mpc = "idle"
  /\ tpc = "none"
  /\ stop_gracefully = FALSE
  /\ elapsed = 0
  /\ block = << >>
  /\ scale = FALSE
  /\ crashed = FALSE
  /\ volume_ = 100
  /\ decibel_index = DecibelIndex(100)
  /\ mul_input = 0
  /\ mul_c = 0
  /\ mul_output = 0
  /\ accepted = << >>
  /\ consumed = 0
  /\ passed = << >>
  /\ signalled = << >>
  /\ setup_failed = FALSE
  /\ hard = "no"
  /\ empty_at = -1
  /\ sink_unowned = FALSE
  /\ unlock_unowned = FALSE
  /\ noop_start = FALSE
  /\ idle_reads = 0
  /\ previous_task = FALSE
  /\ dma_zeroed = FALSE
  /\ spc = "none"
  /\ speaker_event_queue_ = << >>
  /\ speaker_command_queue_ = << >>
  /\ mixer = 0
  /\ opc = "idle"
  /\ media_control_command_queue_ = << >>
  /\ pipeline_ = [p \in Pipelines |-> FALSE]
  /\ pipeline_state_ = [p \in Pipelines |-> "STOPPED"]
  /\ retry = [p \in Pipelines |-> 0]
  /\ start_pending = [p \in Pipelines |-> FALSE]
  /\ is_paused_ = FALSE
  /\ is_muted_ = FALSE
  /\ is_idle_muted_ = FALSE
  /\ state = "IDLE"
  /\ dac_muted \in BOOLEAN
  /\ dac_failed = FALSE
  /\ combine_cmd = "none"
  /\ ducking_ratio = 100
  /\ ducking_released = FALSE
  /\ pipe_phase = [p \in Pipelines |-> "off"]
  /\ pipe_events = [p \in Pipelines |-> << >>]
  /\ pipe_stop = [p \in Pipelines |-> FALSE]
  /\ faults = 0
  /\ calls = 0

PlayerNext ==
  \/ Control \/ SetDuckingRatio \/ WatchMediaCommands \/ RetryStart
  \/ PlayerStep
  \/ PipelineStep

PlayerSpec ==
  PlayerInit /\ [][PlayerNext]_vars

\* control() is called with a new url only (lines 631-646), for the media or
\* for the announcement pipeline
SetSource ==
  /\ Control
  /\ \A i \in 1..Len(media_control_command_queue_') :
       media_control_command_queue_'[i].new_url

\* the player when it is given new sources only
SourceNext ==
  \/ SetSource \/ WatchMediaCommands \/ RetryStart
  \/ PlayerStep
  \/ PipelineStep

SourceSpec ==
  PlayerInit /\ [][SourceNext]_vars

\* loop() goes on from one of its parts to the next
LoopGoesOn ==
  PlayerStep /\ opc' # opc

\* the scheduling the player relies on: the main loop calls loop() again and
\* again; watch_() returns (a pipeline does not queue events faster than they
\* are read, for ever); and on every pass of the main loop the scheduler calls
\* the function of each retry that is due
SourceFairness ==
  /\ WF_vars(WatchMediaCommands)
  /\ WF_vars(PlayerStep)
  /\ SF_vars(LoopGoesOn)
  /\ \A p \in Pipelines : SF_vars(RetryStart /\ retry'[p] # retry[p])

SourceFairSpec ==
  SourceSpec /\ SourceFairness

----------------------------------------------------------------------------
\* The functions of I2SAudioSpeaker called directly, on inputs beyond those
\* the task and the application of Spec produce.  A behaviour calls one of the
\* functions again and again (comp names it).

FunctionInit ==
  /\ comp \in {"set_volume", "q15_multiplication"}
  /\ cfg = CHOOSE c \in Configs : c.master /\ c.channels = 1
  /\ bits_per_sample_ = cfg.sink_bits
  /\ state_ = "STOPPED"
  /\ speaker_task_handle_ = "null"
  /\ task_created_ = FALSE
  /\ event_group_ = {}
  /\ status_warning = FALSE
  /\ q15_volume_factor_ = INT16_MAX
  /\ audio_ring_buffer_ = NullBuffer
  /\ data_buffer_ = "null"
  /\ lock = "free"
  /\ driver = FALSE
  /\ mpc = "idle"
  /\ tpc = "none"
  /\ stop_gracefully = FALSE
  /\ elapsed = 0
  /\ block = << >>
  /\ scale = FALSE
  /\ crashed = FALSE
  /\ volume_ = 100
  /\ decibel_index = DecibelIndex(100)
  /\ mul_input = 0
  /\ mul_c = 0
  /\ mul_output = 0
  /\ accepted = << >>
  /\ consumed = 0
  /\ passed = << >>
  /\ signalled = << >>
  /\ setup_failed = FALSE
  /\ hard = "no"
  /\ empty_at = -1
  /\ sink_unowned = FALSE
  /\ unlock_unowned = FALSE
  /\ noop_start = FALSE
  /\ idle_reads = 0
  /\ previous_task = FALSE
  /\ dma_zeroed = FALSE
  /\ spc = "none"
  /\ speaker_event_queue_ = << >>
  /\ speaker_command_queue_ = << >>
  /\ mixer = 0
  /\ opc = "idle"
  /\ media_control_command_queue_ = << >>
  /\ pipeline_ = [p \in Pipelines |-> FALSE]
  /\ pipeline_state_ = [p \in Pipelines |-> "STOPPED"]
  /\ retry = [p \in Pipelines |-> 0]
  /\ start_pending = [p \in Pipelines |-> FALSE]
  /\ is_paused_ = FALSE
  /\ is_muted_ = FALSE
  /\ is_idle_muted_ = FALSE
  /\ state = "IDLE"
  /\ dac_muted = FALSE
  /\ dac_failed = FALSE
  /\ combine_cmd = "none"
  /\ ducking_ratio = 100
  /\ ducking_released = FALSE
  /\ pipe_phase = [p \in Pipelines |-> "off"]
  /\ pipe_events = [p \in Pipelines |-> << >>]
  /\ pipe_stop = [p \in Pipelines |-> FALSE]
  /\ faults = 0
  /\ calls = 0

\* set_volume(volume) with any volume
SetVolumeAny ==
  /\ comp = "set_volume"
  /\ \E v \in VolumeInputs : SetVolumeTo(v)
  /\ UNCHANGED << comp, cfg, bits_per_sample_, state_, speaker_task_handle_,
                  task_created_, event_group_, status_warning, audio_ring_buffer_,
                  data_buffer_, lock, driver, mpc, tpc, stop_gracefully, elapsed, block,
                  scale, crashed, mul_input, mul_c, mul_output, accepted, consumed,
                  passed, signalled, setup_failed, hard, empty_at, sink_unowned,
                  unlock_unowned, noop_start, idle_reads, previous_task, dma_zeroed, spc,
                  speaker_event_queue_, speaker_command_queue_, mixer, opc,
                  media_control_command_queue_, pipeline_, pipeline_state_, retry,
                  start_pending, is_paused_, is_muted_, is_idle_muted_, state, dac_muted,
                  dac_failed, combine_cmd, ducking_ratio, ducking_released, pipe_phase,
                  pipe_events, pipe_stop, faults, calls >>

\* q15_multiplication(input, output, 1, c)
Multiply ==
  /\ comp = "q15_multiplication"
  /\ \E s \in SampleInputs, c \in Gains :
       /\ mul_input' = s
       /\ mul_c' = c
       /\ mul_output' = q15_multiplication(s, c)
  /\ UNCHANGED << comp, cfg, bits_per_sample_, state_, speaker_task_handle_,
                  task_created_, event_group_, status_warning, q15_volume_factor_,
                  audio_ring_buffer_, data_buffer_, lock, driver, mpc, tpc,
                  stop_gracefully, elapsed, block, scale, crashed, volume_,
                  decibel_index, accepted, consumed, passed, signalled, setup_failed,
                  hard, empty_at, sink_unowned, unlock_unowned, noop_start, idle_reads,
                  previous_task, dma_zeroed, spc, speaker_event_queue_,
                  speaker_command_queue_, mixer, opc, media_control_command_queue_,
                  pipeline_, pipeline_state_, retry, start_pending, is_paused_,
                  is_muted_, is_idle_muted_, state, dac_muted, dac_failed, combine_cmd,
                  ducking_ratio, ducking_released, pipe_phase, pipe_events, pipe_stop,
                  faults, calls >>

FunctionNext ==
  \/ SetVolumeAny \/ Multiply

FunctionSpec ==
  FunctionInit /\ [][FunctionNext]_vars

----------------------------------------------------------------------------
\* Properties

Range(s) ==
  {s[i] : i \in 1 .. Len(s)}

\* the factors set_volume can store
VolumeFactors ==
  UNION {set_volume(v) : v \in Volumes}

\* a stop command is pending in the event group
StopRequested ==
  /\ comp = "i2s"
  /\ event_group_ \cap {"COMMAND_STOP", "COMMAND_STOP_GRACEFULLY"} # {}

\* C1: once stop() or finish() has set its command bit (state_ was not STOPPED),
\* state_ eventually becomes STOPPED, under fair scheduling of the task and of
\* loop().  Runs that crashed and runs whose setup failed are left aside.
C1_StopReachesStopped ==
  StopRequested ~> (state_ = "STOPPED" \/ crashed \/ setup_failed)

\* the position of a state in STARTING -> RUNNING -> STOPPING -> STOPPED
Rank(st) ==
  CASE st = "STARTING" -> 1
    [] st = "RUNNING" -> 2
    [] st = "STOPPING" -> 3
    [] OTHER -> 4

\* C2: every change of state_ moves it forward along STARTING -> RUNNING ->
\* STOPPING -> STOPPED (states may be skipped), or leaves STOPPED for a new
\* lifecycle, which has begun when a task exists again.
C2_StateForward ==
  [][state_' # state_ =>
       IF state_ = "STOPPED"
         THEN speaker_task_handle_ # "null"
         ELSE Rank(state_') > Rank(state_)]_vars

\* a whole lifecycle was followed by loop(), from STOPPED back to STOPPED
C2_Witness ==
  /\ comp = "i2s"
  /\ state_ = "STOPPED"
  /\ speaker_task_handle_ = "null"
  /\ signalled = << "STATE_STARTING", "STATE_RUNNING", "STATE_STOPPING", "STATE_STOPPED" >>

\* the phase of a status event of the nabu speaker task
Phase(e) ==
  CASE e = "STARTING" -> 1
    [] e = "STARTED" -> 2
    [] e \in {"RUNNING", "IDLE"} -> 3
    [] e = "STOPPING" -> 4
    [] OTHER -> 5

\* C3: leaving WARNING aside, the events the nabu speaker task has sent are in
\* the order STARTING, STARTED, (RUNNING | IDLE)*, STOPPING, STOPPED, each of
\* the four others at most once; STOPPED is the last event, and it was sent
\* once the task has come to its end.
C3_EventOrder ==
  comp = "nabu" =>
    LET ev == SelectSeq(signalled, LAMBDA e : e # "WARNING")
    IN  /\ \A i \in 1 .. Len(ev) : \A j \in (i + 1) .. Len(ev) :
             \/ Phase(ev[i]) < Phase(ev[j])
             \/ Phase(ev[i]) = 3 /\ Phase(ev[j]) = 3
        /\ \A i \in 1 .. Len(signalled) :
             signalled[i] = "STOPPED" => i = Len(signalled)
        /\ spc \in {"spin", "deleted"} =>
             signalled # << >> /\ signalled[Len(signalled)] = "STOPPED"

\* a lifecycle with an iteration of the loop came to its end
C3_Witness ==
  /\ comp = "nabu"
  /\ spc = "spin"
  /\ Len(signalled) = 5
  /\ Range(signalled) \cap {"RUNNING", "IDLE"} # {}
  /\ signalled[4] = "STOPPING"

\* C4: in a lifecycle whose setup failed, the worker has not signalled running
\* (STATE_RUNNING; STARTED or RUNNING for nabu) and has read and written no audio.
C4_FailedSetupNeverRuns ==
  setup_failed =>
    /\ Range(signalled) \cap {"STATE_RUNNING", "STARTED", "RUNNING"} = {}
    /\ passed = << >>
    /\ consumed = 0

\* the stream configuration failed and the task went on to its teardown
C4_Witness ==
  /\ comp = "i2s"
  /\ setup_failed
  /\ "STATE_STOPPING" \in Range(signalled)

\* C5: after a setup failure the I2SAudioSpeaker task comes to its end (it is
\* deleted, having set STATE_STOPPED), under fair scheduling.
C5_FailedSetupTerminates ==
  (comp = "i2s" /\ setup_failed) ~> (tpc = "none" \/ crashed)

\* C6: a worker that has seen a hard stop writes no more audio to the sink, and
\* has zeroed the sink's DMA buffer when it signals STOPPING or STOPPED.
C6_HardStopSilence ==
  /\ hard # "wrote"
  /\ hard = "seen" =>
       Range(signalled) \cap {"STATE_STOPPING", "STATE_STOPPED", "STOPPING", "STOPPED"} = {}

\* a hard stop was seen with data still buffered, and the task has signalled
\* STOPPING
C6_Witness ==
  /\ comp = "i2s"
  /\ hard = "silenced"
  /\ audio_ring_buffer_.data # << >>
  /\ "STATE_STOPPING" \in Range(signalled)

\* the samples with these ids were passed to the sink
PassedIds ==
  {passed[i].id : i \in 1 .. Len(passed)}

\* C7: when the task has left its loop on a graceful stop (no hard stop seen,
\* no timeout) and signalled STOPPING, an empty read took place and every
\* sample play() accepted before it was passed to the sink.
C7_GracefulDrain ==
  ( /\ comp = "i2s"
    /\ "STATE_STOPPING" \in Range(signalled)
    /\ "STATE_RUNNING" \in Range(signalled)
    /\ stop_gracefully
    /\ hard = "no"
    /\ elapsed <= TimeoutReads )
  => /\ empty_at >= 0
     /\ \A i \in 1 .. empty_at : i \in PassedIds

\* where the task is between a successful try_lock and its unlock
Holding ==
  {"stream_info", "set_running", "loop_top", "zero_stop", "read", "write",
   "stopping", "teardown"}

\* C8: the I2SAudioSpeaker task touches the sink only while it holds the
\* parent's lock, never unlocks a lock it does not hold, and holds the lock
\* only between a successful try_lock and the unlock that precedes delete_task_.
C8_SinkOwnership ==
  comp = "i2s" =>
    /\ ~sink_unowned
    /\ ~unlock_unowned
    /\ lock = "speaker" => tpc \in Holding

\* a task took the lock, ran, released it and signalled STOPPED
C8_Witness ==
  /\ comp = "i2s"
  /\ "STATE_RUNNING" \in Range(signalled)
  /\ "STATE_STOPPED" \in Range(signalled)
  /\ lock # "speaker"

\* C9: while play() is between clearing and setting
\* MESSAGE_RING_BUFFER_AVAILABLE_TO_WRITE, the ring buffer is not released.
C9_NoReleaseInsidePlay ==
  [][mpc = "play_write" /\ audio_ring_buffer_.alloc => audio_ring_buffer_'.alloc]_vars

\* C10, as stated: the samples passed to the sink are, value for value, a
\* prefix of the samples play() accepted.
C10_LiteralPrefix ==
  comp = "i2s" =>
    /\ Len(passed) <= Len(accepted)
    /\ \A i \in 1 .. Len(passed) : passed[i].val = accepted[i]

\* C10, amended: the samples passed to the sink are the first samples play()
\* accepted, in order, none twice and none skipped, each as accepted or scaled
\* by a volume factor.
C10_FifoUpToScaling ==
  comp = "i2s" =>
    /\ Len(passed) <= Len(accepted)
    /\ \A i \in 1 .. Len(passed) :
         /\ passed[i].id = i
         /\ \/ passed[i].val = accepted[i]
            \/ \E f \in VolumeFactors : passed[i].val = q15_multiplication(accepted[i], f)

\* two samples were passed, the first of them scaled
C10_Witness ==
  /\ comp = "i2s"
  /\ Len(passed) = 2
  /\ passed[1].val # accepted[1]

----------------------------------------------------------------------------
\* C11: start() is idempotent: a call of start() while state_ is STARTING or
\* RUNNING creates no task, sets no bit of the event group and leaves
\* task_created_ and the task handle as they were; the call is over after it
\* (task_created_ is not set later on its behalf).
C11_StartIdempotent ==
  [][(Start /\ state_ \in {"STARTING", "RUNNING"})
       => /\ UNCHANGED << speaker_task_handle_, tpc, event_group_, task_created_ >>
          /\ mpc' = "idle"]_vars

\* start() was called with state_ STARTING or RUNNING and returned
C11_Witness ==
  /\ noop_start
  /\ state_ \in {"STARTING", "RUNNING"}
  /\ mpc = "idle"

\* the retry protocol calls start() on pipeline p in this step
StartCalled(p) ==
  /\ RetryStart
  /\ retry[p] > 0
  /\ retry'[p] = 0
  /\ pipeline_state_[p] = "STOPPED"

\* C12: the Orchestrator calls start() on a pipeline only when that pipeline is
\* stopped: never between an earlier start() on it and the STOPPED event of that
\* run (after which stop() has torn the run down), whatever new-source commands
\* arrive, also two for the same pipeline before the first run's STARTING event
\* was read.
C12_StartOnlyWhenStopped ==
  [][\A p \in Pipelines : StartCalled(p) => pipe_phase[p] = "off"]_vars

\* a pipeline whose tracked state is neither STOPPING nor STOPPED
Active(st) ==
  st \notin {"STOPPING", "STOPPED"}

\* C13: after every loop() pass the published state is ANNOUNCING if the
\* announcement pipeline is neither STOPPING nor STOPPED; else PAUSED if the
\* paused flag is set; else PLAYING if the media pipeline is neither STOPPING
\* nor STOPPED; else IDLE.
C13_PublishedState ==
  [][Derive =>
       state' = CASE Active(pipeline_state_'["announcement"]) -> "ANNOUNCING"
                  [] ~Active(pipeline_state_'["announcement"]) /\ is_paused_' -> "PAUSED"
                  [] ~Active(pipeline_state_'["announcement"]) /\ ~is_paused_'
                       /\ Active(pipeline_state_'["media"]) -> "PLAYING"
                  [] OTHER -> "IDLE"]_vars

\* a pass has published ANNOUNCING although the paused flag is set
C13_Witness ==
  /\ comp = "player"
  /\ opc = "idle"
  /\ state = "ANNOUNCING"
  /\ is_paused_
  /\ Active(pipeline_state_["announcement"])

\* C14: idle muting: provided no write to the DAC has failed, whenever the
\* published state is IDLE or PAUSED at the end of a loop() pass the DAC is
\* muted, whatever MUTE, UNMUTE or volume commands were processed before; and a
\* pass that leaves IDLE or PAUSED for PLAYING or ANNOUNCING with no explicit
\* mute in effect leaves the DAC unmuted.
C14_IdleMuting ==
  [][(Derive /\ ~dac_failed') =>
       /\ state' \in {"IDLE", "PAUSED"} => dac_muted'
       /\ (state \in {"IDLE", "PAUSED"} /\ state' \in {"PLAYING", "ANNOUNCING"}
             /\ ~is_muted_') => ~dac_muted']_vars

\* C15: control() never blocks its caller indefinitely: called with the media
\* command queue full, it gives up the send after a bounded time, drops the
\* request (the queue and the player's state are as before) and returns.
C15_ControlReturns ==
  [][(Control /\ Len(media_control_command_queue_) = CmdQueueCap) =>
       /\ opc' = "idle"
       /\ media_control_command_queue_' = media_control_command_queue_
       /\ state' = state]_vars

\* C16: each polling pass (loop()) drains the media command queue: every
\* command that was queued when the pass began has been dispatched by the time
\* the pass ends (control() does not run during a pass, so the queue is empty).
C16_PassDrainsQueue ==
  [][Derive => media_control_command_queue_' = << >>]_vars

\* the effect watch_media_commands_ has when it dispatches command c
Dispatched(c) ==
  /\ c.new_url => retry'[Target(c.announce)] = RetryAttempts
  /\ c.volume => ~is_muted_'
  /\ c.command = "MUTE" => is_muted_'
  /\ c.command = "UNMUTE" => ~is_muted_'
  /\ c.command = "PAUSE" => is_paused_'
  /\ c.command = "PLAY" => ~is_paused_'
  /\ c.command = "TOGGLE" => is_paused_' = ~is_paused_

\* C16 as amended: each pass takes the oldest command of the queue, if there is
\* one, and dispatches it; the commands behind it stay queued, in their order.
C16_OldestPerPass ==
  [][(WatchMediaCommands /\ media_control_command_queue_ # << >>) =>
       /\ media_control_command_queue_' = Tail(media_control_command_queue_)
       /\ opc' # "halt" => Dispatched(Head(media_control_command_queue_))]_vars

\* a pass took one command and left another on the queue
C16_Witness ==
  /\ opc = "watch_announcement"
  /\ media_control_command_queue_ # << >>

\* the transitions of STOPPED -> STARTING -> STARTED -> (PLAYING|IDLE)* ->
\* STOPPING -> STOPPED
NormalTransitions ==
  {<< "STOPPED", "STARTING" >>, << "STARTING", "STARTED" >>,
   << "STARTED", "PLAYING" >>, << "STARTED", "IDLE" >>,
   << "PLAYING", "IDLE" >>, << "IDLE", "PLAYING" >>,
   << "STARTED", "STOPPING" >>, << "PLAYING", "STOPPING" >>,
   << "IDLE", "STOPPING" >>, << "STOPPING", "STOPPED" >>}

\* the run of pipeline p was cut before the pipeline reported STARTED
CutShort(p) ==
  pipe_phase[p] \in {"stopping_early", "ended_early"}

\* C17: for each pipeline the tracked state follows STOPPED -> STARTING ->
\* STARTED -> (PLAYING|IDLE)* -> STOPPING -> STOPPED over a normal run: its
\* status events arriving in the order produced, every change of the tracked
\* state is one of these transitions (never STOPPED to PLAYING, never STOPPING
\* back to PLAYING).
C17_TrackedStateSequence ==
  [][\A p \in Pipelines :
       (pipeline_state_'[p] # pipeline_state_[p] /\ ~CutShort(p))
         => << pipeline_state_[p], pipeline_state_'[p] >> \in NormalTransitions]_vars

\* a normal run of the media pipeline was followed up to STOPPING, with its
\* STOPPED event still to be read
C17_Witness ==
  /\ pipeline_state_["media"] = "STOPPING"
  /\ pipe_phase["media"] = "ended"

\* C18: the Orchestrator sets a pipeline's tracked state to STOPPED only after
\* it has called stop() on that pipeline for that run (in the step that reads the
\* STOPPED event, stop() tears the run down first), so every start() the retry
\* protocol issues on a pipeline that ran before comes after the stop() of the
\* previous run: no run is in progress when start() is called.
C18_StoppedAfterStop ==
  [][\A p \in Pipelines :
       /\ (pipeline_state_[p] # "STOPPED" /\ pipeline_state_'[p] = "STOPPED")
            => (pipe_phase[p] # "off" /\ pipe_phase'[p] = "off")
       /\ (StartCalled(p) /\ pipeline_state_'[p] = "STOPPED")
            => pipe_phase[p] \notin {"starting", "started", "running", "stopping",
                                     "stopping_early", "ended", "ended_early"}]_vars

\* where the I2SAudioSpeaker task is while it is in its loop (lines 286-332)
InLoop ==
  {"loop_top", "read", "write"}

\* where the nabu speaker task is while it is in its loop (lines 279-323)
NabuInLoop ==
  {"receive", "read", "send_RUNNING", "send_WARNING", "send_IDLE"}

\* C19: a short write to the sink is not fatal: the I2SAudioSpeaker task sets
\* ERR_INVALID_SIZE and the nabu speaker task sends a WARNING event, and both
\* stay in their loop; the I2SAudioSpeaker task leaves its loop only on a stop
\* command, on a graceful stop with an empty buffer or on the idle timeout, the
\* nabu speaker task only on a STOP command.
C19_ShortWriteNotFatal ==
  [][/\ (TaskWrite /\ (faults' > faults \/ cfg.stream_bits > bits_per_sample_))
          => ("ERR_INVALID_SIZE" \in event_group_' /\ tpc' \in InLoop)
     /\ (tpc \in InLoop /\ tpc' \notin InLoop)
          => \/ tpc = "loop_top" /\ "COMMAND_STOP" \in event_group_
             \/ tpc = "read" /\ stop_gracefully /\ audio_ring_buffer_.data = << >>
             \/ tpc = "loop_top" /\ elapsed > TimeoutReads
     /\ (NabuReadWrite /\ faults' > faults) => spc' = "send_WARNING"
     /\ (spc = "send_WARNING" /\ spc' # spc)
          => /\ spc' \in NabuInLoop
             /\ speaker_event_queue_' = Append(speaker_event_queue_, "WARNING")
     /\ (spc \in NabuInLoop /\ spc' \notin NabuInLoop)
          => /\ speaker_command_queue_ # << >>
             /\ Head(speaker_command_queue_) = "STOP"]_vars

\* the I2SAudioSpeaker task is in its loop after a short write
C19_Witness ==
  /\ comp = "i2s"
  /\ tpc \in InLoop
  /\ "ERR_INVALID_SIZE" \in event_group_
  /\ faults > 0
  /\ passed # << >>

\* C20: idle timeout: when no data has reached the task for longer than the
\* timeout while it is in its loop, the task leaves the loop, stop command or
\* not; the task that sets STATE_STOPPED has released the sink; and as long as
\* its reads return data, the timeout does not end the loop: the loop is left
\* on the timeout only after a read that returned no data.
C20_IdleTimeout ==
  [][/\ (TaskLoopTop /\ idle_reads > TimeoutReads) => tpc' = "stopping"
     /\ ("STATE_STOPPED" \notin event_group_ /\ "STATE_STOPPED" \in event_group_')
          => (lock' # "speaker" /\ ~driver')
     /\ (TaskLoopTop /\ tpc' = "stopping") => idle_reads > 0]_vars

\* C21: set_volume(0.0) selects the factor 0, set_volume(1.0) selects 32767, the
\* last of the 100 table entries, and when a call with a volume in [0, 1] follows
\* a call with a smaller or equal volume in [0, 1] the factor does not decrease.
C21_VolumeMapping ==
  [][/\ volume_' = 0 => q15_volume_factor_' = 0
     /\ volume_' = 100 =>
          /\ q15_volume_factor_' = INT16_MAX
          /\ q15_volume_factor_' = q15_volume_scaling_factors[100]
          /\ Len(q15_volume_scaling_factors) = 100
     /\ (volume_ \in 0 .. 100 /\ volume_' \in 0 .. 100 /\ volume_ <= volume_')
          => q15_volume_factor_ <= q15_volume_factor_']_vars

\* set_volume(0.0) was called and stored the factor 0
C21_Witness ==
  /\ comp = "set_volume"
  /\ volume_ = 0
  /\ q15_volume_factor_ = 0

\* round(v * 99) for a volume v in hundredths (halves away from zero), clamped
\* to the bounds of the table
RoundedIndex(v) ==
  LET n == v * (Len(q15_volume_scaling_factors) - 1)
      r == IF n >= 0 THEN (n + 50) \div 100 ELSE -((50 - n) \div 100)
  IN  IF r < 0 THEN 0
      ELSE Min(r, Len(q15_volume_scaling_factors) - 1)

\* C22: for every volume, set_volume selects the table entry at index
\* round(volume * 99) clamped to [0, 99]: volume 0.5 selects index 50, and no
\* volume indexes outside the table.
C22_RoundedClampedIndex ==
  /\ decibel_index = RoundedIndex(volume_)
  /\ decibel_index \in 0 .. (Len(q15_volume_scaling_factors) - 1)
  /\ volume_ = 50 => decibel_index = 50

Abs(x) ==
  IF x >= 0 THEN x ELSE -x

\* C23: q15_multiplication yields, for a 16-bit sample and a factor in
\* [0, 32767], the product shifted right by 15 bits (its floor of product /
\* 2^15): the result fits in int16 and its magnitude is not larger than the
\* sample's; the factor 0 yields 0 and the factor 32767 a value within 1 of the
\* sample.
C23_Q15Multiplication ==
  (mul_input \in -32768 .. 32767 /\ mul_c \in 0 .. INT16_MAX)
    => /\ mul_output * 32768 <= mul_input * mul_c
       /\ mul_input * mul_c < (mul_output + 1) * 32768
       /\ mul_output \in -32768 .. 32767
       /\ Abs(mul_output) <= Abs(mul_input)
       /\ mul_c = 0 => mul_output = 0
       /\ mul_c = INT16_MAX => Abs(mul_output - mul_input) <= 1

\* the most negative sample was multiplied by the factor 32767
C23_Witness ==
  /\ comp = "q15_multiplication"
  /\ mul_input = -32768
  /\ mul_c = INT16_MAX
  /\ mul_output = -32767

\* the announcement (foreground) source has stopped
AnnouncementStopped(phase) ==
  phase["announcement"] \in {"ended", "ended_early"}

RecordedErrors ==
  ERROR_BITS \cup {"ERR_TASK_FAILED_TO_START"}

\* C26: every error kind recorded in the event group (invalid state, invalid
\* argument, invalid size, out of memory, I/O failure, task start failure) makes
\* a loop() pass that finds it raise the warning; in particular a failure to
\* create the speaker task in start().
C26_EveryErrorWarns ==
  [][(loop /\ event_group_ \cap RecordedErrors # {}) => status_warning']_vars

\* C27: underrun silence: in every iteration of a running worker (the
\* I2SAudioSpeaker task, the nabu speaker task) in which the read returns no
\* data, the worker zeroes the sink's DMA buffers in that same iteration and
\* passes no audio data to the sink.
C27_UnderrunSilence ==
  [][/\ (TaskRead /\ audio_ring_buffer_.data = << >>)
          => /\ dma_zeroed'
             /\ passed' = passed
             /\ tpc' \in {"loop_top", "stopping"}
     /\ (NabuReadWrite /\ mixer = 0)
          => /\ dma_zeroed'
             /\ consumed' = consumed
             /\ spc' = "send_IDLE"]_vars

\* the I2SAudioSpeaker task has zeroed the DMA buffers after data had been
\* written to them: a read of a run that had passed samples returned nothing
C27_Witness ==
  /\ comp = "i2s"
  /\ tpc = "loop_top"
  /\ passed # << >>
  /\ empty_at = Len(accepted)
  /\ idle_reads > 0
  /\ dma_zeroed

\* the speaker tasks that exist: the task of the current run and, when start()
\* created it early, the task of the run before
TasksAlive ==
  (IF tpc \notin {"none", "halt"} THEN 1 ELSE 0) + (IF previous_task THEN 1 ELSE 0)

\* C28 as stated: at most one I2SAudioSpeaker speaker task exists at any time.
C28_AtMostOneTask ==
  comp = "i2s" => TasksAlive <= 1

\* C28: start() creates a task only when the task handle is null, and loop()
\* resets the handle only after the task has set STATE_STOPPED and cleared
\* task_created_, so that a task which still exists when the next one is
\* created has nothing left to do but vTaskDelete; at most one task is ever
\* before that point.
C28_OneWorkingTask ==
  [][comp = "i2s" =>
       /\ (tpc' = "wait_cmd" /\ tpc # "wait_cmd")
            => (speaker_task_handle_ = "null" /\ tpc \in {"none", "del_delete"})
       /\ (speaker_task_handle_ = "task" /\ speaker_task_handle_' = "null")
            => /\ loop
               /\ "STATE_STOPPED" \in event_group_
               /\ ~task_created_
               /\ tpc \in {"none", "del_delete"}
       /\ speaker_task_handle_' = "null" => tpc' \in {"none", "del_delete", "halt"}]_vars

\* start() has created a task while the task of the run before had yet to
\* delete itself
C28_Witness ==
  /\ comp = "i2s"
  /\ previous_task
  /\ tpc = "wait_cmd"
  /\ speaker_task_handle_ = "task"

\* C29: whenever play() has passed its availability check and calls
\* write_without_replacement, the audio ring buffer is allocated: a play() made
\* after delete_task_ released the buffer, with
\* MESSAGE_RING_BUFFER_AVAILABLE_TO_WRITE still set, does not get that far.
C29_PlayWritesAllocatedBuffer ==
  [][(comp = "i2s" /\ PlayWait /\ MSG \in event_group_)
       => audio_ring_buffer_.alloc]_vars

\* C30: while an explicit mute is in effect (is_muted_: set when a MUTE command
\* is processed, cleared only when an UNMUTE or a volume command is), no step
\* of loop() unmutes the DAC: neither the state derivation, whatever the change
\* of state, nor the processing of any other command.
C30_MuteSurvivesStateChanges ==
  [][/\ (is_muted_ /\ is_muted_' /\ dac_muted) => dac_muted'
     /\ (Derive /\ is_muted_) => (dac_muted' \/ ~dac_muted)
     /\ (~is_muted_ /\ is_muted_')
          => (WatchMediaCommands /\ Head(media_control_command_queue_).command = "MUTE")
     /\ (is_muted_ /\ ~is_muted_')
          => /\ WatchMediaCommands
             /\ \/ Head(media_control_command_queue_).command = "UNMUTE"
                \/ Head(media_control_command_queue_).volume]_vars

\* muted while idle, the player has gone on to PLAYING and the DAC is still
\* muted
C30_Witness ==
  /\ comp = "player"
  /\ opc = "idle"
  /\ is_muted_
  /\ dac_muted
  /\ is_idle_muted_
  /\ state = "PLAYING"

\* the main thread has stopped for good: it crashed, or it waits in control()
\* for room in a queue that only loop() empties
MainStopped ==
  opc \in {"halt", "send_blocked"}

\* C31: a new-source request is not lost: when a new-source command was
\* processed while its pipeline was active and the pipeline's STOPPED is
\* tracked at some later point, start() is eventually called on the pipeline,
\* however long the pipeline takes to stop (as long as the main loop runs).
C31_NewSourceNotLost ==
  \A p \in Pipelines :
    [](start_pending[p]
         => (<>(pipeline_state_[p] = "STOPPED")
               => <>(~start_pending[p] \/ MainStopped)))

\* loop() takes a STOP command for a pipeline that was never created
StopWithoutPipeline ==
  /\ WatchMediaCommands
  /\ media_control_command_queue_ # << >>
  /\ Head(media_control_command_queue_).command = "STOP"
  /\ ~pipeline_[Target(Head(media_control_command_queue_).announce)]

\* C32: a STOP command processed while its pipeline was never created does not
\* use the pipeline: loop() goes on, no command is sent and the player's state
\* stays as it is, except that a media STOP clears the paused flag.
C32_StopWithoutPipeline ==
  [][StopWithoutPipeline
       => /\ opc' = "watch_announcement"
          /\ UNCHANGED << pipeline_, pipe_stop, retry, combine_cmd, is_muted_,
                          dac_muted, pipeline_state_, state >>
          /\ is_paused_' = (Head(media_control_command_queue_).announce
                              /\ is_paused_)]_vars

\* C33: the paused flag and the mixer never disagree: is_paused_ is set if and
\* only if the last pause / resume command sent to the mixer was PAUSE_MEDIA.
C33_PausedMatchesMixer ==
  is_paused_ <=> (combine_cmd = "PAUSE_MEDIA")

====
